---- MODULE Spec2Model ----
(***************************************************************************)
(* SocialPulseAI: the comment collector (server/services/mediaCollector.ts,*)
(* second class body, lines 701-2170), the in-memory store (storage.ts)    *)
(* and the /api/analyze and /api/comments routes (routes.ts, two versions).*)
(***************************************************************************)
EXTENDS Integers, Sequences, FiniteSets, TLC

(***************************************************************************)
(* Bounds of the model (not program constants).                            *)
(***************************************************************************)
MaxVideos == 2        \* videos a keyword search returns
MaxCommentId == 4     \* comment ids the platform hands out per video
MaxPageItems == 2     \* items on one page of comments
MaxPages == 2         \* length of the platform's continuation-token chain
MaxFailures == 4      \* failed page requests per collection
MaxPageResponses == 2 \* answered page requests per collection
MaxReported == 4      \* largest statistics.commentCount tried
MaxApiItems == 1      \* records a non-video platform returns per request
MaxPosts == 1         \* posts / media a non-video platform search returns
MaxRandomDraw == 0    \* values tried for Math.floor(Math.random() * n)
MaxStoredComments == 2 \* comments of the longest collected list
MaxRequests == 3      \* requests the routes receive
MaxQueries == 2       \* search queries saved
MaxPage == 2          \* largest page number requested
MaxPageSize == 2      \* largest pageSize requested of /api/comments
MaxPositive == 12     \* positive comments of the first user of an aggregated set
MaxNeutral == 5       \* neutral comments of the first user
MaxNegative == 3      \* negative comments of the first user
MaxSecond == 6        \* comments of the second user
MaxCrowd == 9         \* further users with one comment each
MaxWords == 2         \* words of a comment text built from the vocabulary

(***************************************************************************)
(* Program constants.                                                      *)
(***************************************************************************)
maxRetries == 3
SafetyCeiling == 200
MinSampleComments == 15
MinTitleSampleComments == 10
NoteThresholdPercent == 95
NoteThresholdAbsolute == 2
FewCommentsLimit == 3
BackoffBaseMs == 1000
TrendDays == 30
AnalyzePageSize == 10

VARIABLES
    \* ---- MediaCollector (one collectComments call in progress)
    cpc,                  \* position in collectComments / fetchFrom*
    request,              \* [platform, isVideoTitleSearch] of the call
    apiKey,               \* is a credential configured for the platform being fetched
    platforms,            \* the list collectComments iterates over
    platIdx,              \* index of the platform being fetched
    allComments,          \* collectComments' accumulator
    comments,             \* the `comments` array of the running fetchFrom*
    videoIds,             \* videos still to process (fetchFromYouTube)
    videoId,              \* video being processed
    commentCount,         \* statistics.commentCount as the code read it
    nextPageToken,        \* 0 is undefined
    localNextPageToken,
    localTotalFetched,
    totalCommentsFetched,
    retryCount,
    failedAttempts,
    commentType,          \* 1 = commentThreads, 2 = comments
    posts,                \* Facebook posts / Instagram media still to process
    result,               \* what collectComments returned
    \* ---- what the upstream did, kept for the properties
    lastDelay,            \* setTimeout delay slept before the pending request
    outcomes,             \* per platform: how its fetch ended and what it returned
    reported,             \* video id -> comment count the platform reported
    failuresLeft,         \* failed page requests the upstream may still produce
    pagesLeft,            \* answered page requests the upstream may still produce
    \* ---- MemStorage (storage.ts)
    searchQueries,        \* Map id -> SearchQuery; ids are 1, 2, ... in insertion order
    storedComments,       \* the `comments` Map: id -> stored list
    cachedAnalytics,      \* Map id -> analytics
    apiKeys,              \* platforms whose key is neither null nor ""
    \* ---- GET /api/analyze and GET /api/comments (routes.ts)
    pending,              \* requests waiting for collectComments to return
    lastRequest,          \* the request answered last
    response,             \* the body answered last
    requests,             \* requests received so far
    collectorCalls        \* collectComments calls made so far

collVars == <<cpc, request, apiKey, platforms, platIdx, allComments, comments,
              videoIds, videoId, commentCount, nextPageToken, localNextPageToken,
              localTotalFetched, totalCommentsFetched, retryCount, failedAttempts,
              commentType, posts, result, lastDelay, outcomes, reported, failuresLeft,
              pagesLeft>>

apiVars == <<searchQueries, storedComments, cachedAnalytics, apiKeys, pending,
             lastRequest, response, requests, collectorCalls>>

vars == <<collVars, apiVars>>

(***************************************************************************)
(* Helpers                                                                 *)
(***************************************************************************)
Min(a, b) == IF a < b THEN a ELSE b

\* Math.round(num / den) for num >= 0, den > 0: halves round up.
Round(num, den) == (2 * num + den) \div (2 * den)

RECURSIVE Pow2(_)
Pow2(n) == IF n = 0 THEN 1 ELSE 2 * Pow2(n - 1)

RECURSIVE Concat(_)
Concat(ss) == IF ss = <<>> THEN <<>> ELSE Head(ss) \o Concat(Tail(ss))

PlatformNames == <<"YouTube", "Twitter (X)", "Facebook", "Instagram">>
PlatformParams == {"all", "youtube", "twitter", "facebook", "instagram"}

formatPlatformName(p) ==
    CASE p = "youtube" -> "YouTube"
      [] p = "twitter" -> "Twitter (X)"
      [] p = "facebook" -> "Facebook"
      [] p = "instagram" -> "Instagram"
      [] OTHER -> p

\* A collected record.  kind: "comment" | "metadata" (isVideoMetadata) |
\* "metric" (isCommentMetric).  origin: "api" came from the platform,
\* "sample" came from createCommentsData / createVideoTitleCommentsData.
\* sourceUrl is <<vid, cid>>; cid = 0 is the bare video URL.
Record(kind, origin, platform, vid, cid) ==
    [kind |-> kind, origin |-> origin, platform |-> platform, vid |-> vid,
     cid |-> cid, reported |-> 0, retrieved |-> 0, percentage |-> 0]

SourceUrl(c) == <<c.platform, c.vid, c.cid>>
isVideoMetadata(c) == c.kind = "metadata"
isCommentMetric(c) == c.kind = "metric"

ApiComment(platform, vid, cid) == Record("comment", "api", platform, vid, cid)

\* createCommentsData: 15 + floor(random * 10) generated comments.
createCommentsData(platform, draw) ==
    [i \in 1..(MinSampleComments + draw) |->
        Record("comment", "sample", platform, 0, i)]

\* createVideoTitleCommentsData: a generated metadata record, then
\* 10 + floor(random * 15) generated comments.
createVideoTitleCommentsData(draw) ==
    <<Record("metadata", "sample", "YouTube", 0, 0)>> \o
    [i \in 1..(MinTitleSampleComments + draw) |->
        Record("comment", "sample", "YouTube", 0, i)]


\* The store and the routes before any request: the MemStorage constructor
\* (empty maps, every key null) and no request in flight.
NoResponse == [kind |-> "none"]
NoRequest == [route |-> "none"]

ApiStart ==
    /\ searchQueries = <<>>
    /\ storedComments = <<>>
    /\ cachedAnalytics = <<>>
    /\ apiKeys = {}
    /\ pending = <<>>
    /\ lastRequest = NoRequest
    /\ response = NoResponse
    /\ requests = 0
    /\ collectorCalls = 0

(***************************************************************************)
(* MediaCollector.collectComments and fetchCommentsFromPlatform            *)
(***************************************************************************)
Outcome(p, status, list) == [platform |-> p, status |-> status, list |-> list]

callVars == <<request, platforms>>
envVars == <<failuresLeft, pagesLeft>>
loopVars == <<platIdx, allComments, result, outcomes>>
pageVars == <<commentCount, nextPageToken, localNextPageToken, localTotalFetched,
              totalCommentsFetched, retryCount, failedAttempts, commentType>>
videoVars == <<videoIds, videoId, reported>>

\* The locals of a fetchFrom* call, as they are before the call starts and
\* after it returned.
NoLocals ==
    /\ comments' = <<>>
    /\ posts' = <<>>
    /\ videoIds' = <<>>
    /\ videoId' = 0
    /\ reported' = [v \in 1..MaxVideos |-> 0]
    /\ commentCount' = 0
    /\ nextPageToken' = 0
    /\ localNextPageToken' = 0
    /\ localTotalFetched' = 0
    /\ totalCommentsFetched' = 0
    /\ retryCount' = 0
    /\ failedAttempts' = 0
    /\ commentType' = 1
    /\ lastDelay' = 0

\* A fetchFrom* method returns `list`: fetchFromYouTubeByTitle's value is
\* collectComments' value (line 760-761); any other is appended to
\* allComments and the loop goes on (line 767-775).
Return(p, status, list) ==
    /\ outcomes' = Append(outcomes, Outcome(p, status, list))
    /\ IF request.isVideoTitleSearch
         THEN /\ result' = list
              /\ cpc' = "done"
              /\ UNCHANGED <<allComments, platIdx>>
         ELSE /\ allComments' = allComments \o list
              /\ platIdx' = platIdx + 1
              /\ cpc' = "dispatch"
              /\ UNCHANGED result
    /\ NoLocals
    /\ UNCHANGED <<apiVars, callVars, apiKey>>

\* collectComments is called (737-762).  A video-title search goes to
\* fetchFromYouTubeByTitle whatever the platform parameter is; loadApiKeys
\* (1207) reads the credential.
CollectComments(platform, isVideoTitleSearch, key) ==
    /\ cpc = "idle"
    /\ request' = [platform |-> platform, isVideoTitleSearch |-> isVideoTitleSearch]
    /\ platforms' = IF platform = "all" THEN PlatformNames
                    ELSE <<formatPlatformName(platform)>>
    /\ cpc' = IF isVideoTitleSearch THEN "yt_search" ELSE "dispatch"
    /\ apiKey' = (isVideoTitleSearch /\ key)
    /\ UNCHANGED <<apiVars, loopVars, comments, posts, videoVars, pageVars, lastDelay,
                   envVars>>

\* One iteration of the loop over the platforms (767-772) and the switch of
\* fetchCommentsFromPlatform (816-824); each fetchFrom* begins with
\* loadApiKeys, which reads the credential the store holds at that moment.
FetchCommentsFromPlatform(key) ==
    /\ cpc = "dispatch"
    /\ platIdx <= Len(platforms)
    /\ cpc' = CASE platforms[platIdx] = "YouTube" -> "yt_search"
                [] platforms[platIdx] = "Twitter (X)" -> "tw_search"
                [] platforms[platIdx] = "Facebook" -> "fb_search"
                [] platforms[platIdx] = "Instagram" -> "ig_hashtag"
    /\ apiKey' = key
    /\ UNCHANGED <<apiVars, callVars, loopVars, comments, posts, videoVars, pageVars,
                   lastDelay, envVars>>

\* return allComments (777).
CollectCommentsReturn ==
    /\ cpc = "dispatch"
    /\ platIdx > Len(platforms)
    /\ result' = allComments
    /\ cpc' = "done"
    /\ UNCHANGED <<apiVars, callVars, apiKey, platIdx, allComments, outcomes, comments, posts,
                   videoVars, pageVars, lastDelay, envVars>>

(***************************************************************************)
(* fetchFromYouTube (keyword) and fetchFromYouTubeByTitle: the search      *)
(***************************************************************************)
\* No credential: generated data (lines 846-849, 1211-1214).
YouTubeNoKey(draw) ==
    /\ cpc = "yt_search"
    /\ ~apiKey
    /\ Return("YouTube", "nokey",
              IF request.isVideoTitleSearch
                THEN createVideoTitleCommentsData(draw)
                ELSE createCommentsData("YouTube", draw))
    /\ UNCHANGED envVars

\* A keyword search that substitutes generated data for a failed request:
\* not what the code does.
KeywordSearchSubstitutesSample(draw) == createCommentsData("YouTube", draw)

\* What the keyword search returns when the search request fails or finds
\* nothing: [] in every case (lines 866-885, 1192-1196).
KeywordSearchFallback(draw) == <<>>

\* What the title search returns in the same cases: generated data
\* (lines 1228-1231, 1238-1241, 1548-1551).
TitleSearchFallback(draw) == createVideoTitleCommentsData(draw)

SearchFallback(draw) ==
    IF request.isVideoTitleSearch
      THEN TitleSearchFallback(draw)
      ELSE KeywordSearchFallback(draw)

\* The search request fails: 403, another non-OK status (thrown at 876 / 1233
\* and caught at 1192 / 1548) or a rejected fetch.
YouTubeSearchFails(kind, draw) ==
    /\ cpc = "yt_search"
    /\ apiKey
    /\ kind \in {"403", "notok", "throw"}
    /\ Return("YouTube", "failed", SearchFallback(draw))
    /\ UNCHANGED envVars

\* The search succeeds with zero items.
YouTubeSearchEmpty(draw) ==
    /\ cpc = "yt_search"
    /\ apiKey
    /\ Return("YouTube", "empty", SearchFallback(draw))
    /\ UNCHANGED envVars

\* The search finds n videos (the title search uses one of them).
YouTubeSearchFound(n) ==
    /\ cpc = "yt_search"
    /\ apiKey
    /\ comments' = <<>>
    /\ IF request.isVideoTitleSearch
         THEN /\ videoIds' = <<>>
              /\ videoId' = 1
              /\ cpc' = "yt_details"
         ELSE /\ videoIds' = [i \in 1..n |-> i]
              /\ videoId' = 0
              /\ cpc' = "yt_video"
    /\ UNCHANGED <<apiVars, callVars, apiKey, loopVars, posts, reported, pageVars, lastDelay,
                   envVars>>

\* for (const videoId of videoIds) (line 891), with the per-video locals of
\* lines 894-898 and 907.
NextVideo ==
    /\ cpc = "yt_video"
    /\ videoIds # <<>>
    /\ videoId' = Head(videoIds)
    /\ videoIds' = Tail(videoIds)
    /\ nextPageToken' = 0
    /\ totalCommentsFetched' = 0
    /\ retryCount' = 0
    /\ failedAttempts' = 0
    /\ commentCount' = 0
    /\ cpc' = "yt_details"
    /\ UNCHANGED <<apiVars, callVars, apiKey, loopVars, comments, posts, reported,
                   localNextPageToken, localTotalFetched, commentType, lastDelay,
                   envVars>>

\* All videos done (line 1190-1191).
YouTubeReturn ==
    /\ cpc = "yt_video"
    /\ videoIds = <<>>
    /\ Return("YouTube", IF comments = <<>> THEN "empty" ELSE "ok", comments)
    /\ UNCHANGED envVars

(***************************************************************************)
(* Video details (lines 903-919 and 1254-1272)                             *)
(***************************************************************************)
\* After the details: the title search records the metadata pseudo-comment
\* (1275-1296); then the few-comments branch or the full pagination flow.
AfterDetails(count) ==
    /\ commentCount' = count
    /\ comments' = IF request.isVideoTitleSearch
                     THEN <<Record("metadata", "api", "YouTube", videoId, 0)>>
                     ELSE comments
    /\ IF count <= FewCommentsLimit
         THEN /\ cpc' = "yt_few"
              /\ localNextPageToken' = 0
              /\ localTotalFetched' = 0
              /\ UNCHANGED <<commentType, nextPageToken, retryCount>>
         ELSE /\ cpc' = "yt_page"
              /\ commentType' = 1
              /\ nextPageToken' = 0
              /\ retryCount' = 0
              /\ UNCHANGED <<localNextPageToken, localTotalFetched>>
    /\ UNCHANGED <<apiVars, callVars, apiKey, loopVars, posts, videoIds, videoId,
                   totalCommentsFetched, failedAttempts, lastDelay, envVars>>

\* The per-video catch of fetchFromYouTube (1184-1187): on to the next video.
SkipVideo ==
    /\ cpc' = "yt_video"
    /\ UNCHANGED <<apiVars, callVars, apiKey, loopVars, comments, posts, videoIds, videoId,
                   pageVars, lastDelay, envVars>>

\* The details request is rejected: fetchFromYouTube's per-video catch skips
\* the video, fetchFromYouTubeByTitle's catch (1548-1551) returns generated
\* data.
DetailsThrows(draw) ==
    /\ cpc = "yt_details"
    /\ IF request.isVideoTitleSearch
         THEN /\ Return("YouTube", "failed", TitleSearchFallback(draw))
              /\ UNCHANGED envVars
         ELSE SkipVideo /\ UNCHANGED reported

\* A non-OK details response, or one without items: commentCount stays 0.
DetailsUnavailable ==
    /\ cpc = "yt_details"
    /\ AfterDetails(0)
    /\ UNCHANGED reported

\* fetchFromYouTube assigns viewCount, likeCount and channelTitle, which no
\* scope declares (lines 914-917): in a strict-mode build (an ES module) the
\* first assignment throws ReferenceError and the per-video catch skips the
\* video; in a sloppy-mode build it creates a global and goes on.  Both are
\* outcomes of the source.  fetchFromYouTubeByTitle declares them (1258-1261).
UndeclaredAssignmentOutcomes == {"ReferenceError", "proceeds"}

\* An OK details response reporting n comments.
DetailsOk(n, outcome) ==
    /\ cpc = "yt_details"
    /\ outcome \in UndeclaredAssignmentOutcomes
    /\ request.isVideoTitleSearch => outcome = "proceeds"
    /\ reported' = [reported EXCEPT ![videoId] = n]
    /\ IF outcome = "ReferenceError" THEN SkipVideo ELSE AfterDetails(n)

(***************************************************************************)
(* Pages of comments                                                       *)
(***************************************************************************)
\* The pages the platform may answer with: a run of consecutive comment ids
\* or one id repeated, and either no continuation token or the next one of a
\* finite chain.
PageItems ==
    UNION {{[j \in 1..n |-> i] : i \in 1..MaxCommentId} \cup
           {[j \in 1..n |-> i + j - 1] : i \in 1..(MaxCommentId - n + 1)}
           : n \in 0..MaxPageItems}
NextTokens(token) == {0} \cup (IF token < MaxPages THEN {token + 1} ELSE {})

\* isDuplicate (lines 948-951, 1069-1072, 1428-1431): the URL is looked up
\* in `comments`, that is in what earlier pages added.
isDuplicate(existing, commentUrl) ==
    \E i \in 1..Len(existing) :
        ~isVideoMetadata(existing[i]) /\ SourceUrl(existing[i]) = commentUrl

\* newComments of one page (941-968, 1053-1089, 1412-1448): the items whose
\* URL is not in `comments`; the page's own earlier items are in newComments,
\* not yet in `comments`.
NewComments(existing, vid, items) ==
    LET all == [i \in 1..Len(items) |-> ApiComment("YouTube", vid, items[i])]
    IN  SelectSeq(all, LAMBDA c : ~isDuplicate(existing, SourceUrl(c)))

\* const sufficientComments = ... (1103, 1462)
sufficientComments(total, count) ==
    total > SafetyCeiling \/ 10 * total >= 8 * count

\* A break condition that applies the ceiling and the 80% mark whether or
\* not a request has failed: not what the code does.
StopAfterPageIgnoringFailures(token, total, count, failed) ==
    token = 0 \/ sufficientComments(total, count)

\* The break condition after a processed page (1104, 1463).
StopAfterPage(token, total, count, failed) ==
    token = 0 \/ (sufficientComments(total, count) /\ failed > 0)

\* The do/while of one comment type goes on with the same type.
ContinuePass(token, retry) ==
    /\ cpc' = "yt_page"
    /\ nextPageToken' = token
    /\ retryCount' = retry
    /\ commentType' = commentType

\* The do/while of one comment type is left, by break or by its condition.
EndPass(token, retry) ==
    /\ cpc' = "yt_pass_end"
    /\ nextPageToken' = token
    /\ retryCount' = retry
    /\ commentType' = commentType

\* `continue` inside do { ... } while (nextPageToken) jumps to the loop
\* condition (1032, 1124, 1131, 1391, 1483, 1490).
ContinueStatement(token, retry) ==
    IF token # 0 THEN ContinuePass(token, retry) ELSE EndPass(token, retry)

\* for (const commentType of commentTypes) (999, 1358): the second type starts
\* with a fresh token and retry count (1001-1003, 1360-1362); after it the
\* note is computed.
NextCommentType ==
    /\ cpc = "yt_pass_end"
    /\ cpc' = IF commentType = 1 THEN "yt_page" ELSE "yt_note"
    /\ commentType' = IF commentType = 1 THEN 2 ELSE 1
    /\ nextPageToken' = 0
    /\ retryCount' = 0
    /\ UNCHANGED <<apiVars, callVars, apiKey, loopVars, comments, posts, videoVars,
                   commentCount, localNextPageToken, localTotalFetched,
                   totalCommentsFetched, failedAttempts, lastDelay, envVars>>

\* A page request of the full pagination flow fails: a non-OK response
\* (1020-1039, 1379-1398) or an exception (1112-1130, 1471-1489).
PageFails(kind) ==
    /\ cpc = "yt_page"
    /\ kind \in {"notok", "throw"}
    /\ failuresLeft > 0
    /\ failuresLeft' = failuresLeft - 1
    /\ failedAttempts' = failedAttempts + 1
    /\ IF retryCount < maxRetries
         THEN /\ lastDelay' = BackoffBaseMs * Pow2(retryCount)
              /\ ContinueStatement(nextPageToken, retryCount + 1)
         ELSE /\ lastDelay' = 0
              /\ EndPass(nextPageToken, retryCount)
    /\ UNCHANGED <<apiVars, callVars, apiKey, loopVars, comments, posts, videoVars,
                   commentCount, localNextPageToken, localTotalFetched,
                   totalCommentsFetched, pagesLeft>>

\* A page request of the full pagination flow is answered OK, and reading the
\* answer throws.  retryCount was set to 0 on the OK status (1042, 1401); the
\* catch (1112-1130, 1471-1489) then counts the failure, finds
\* retryCount < maxRetries, makes it 1, waits 1 s and continues.  When
\* response.json() rejects (1043, 1402) the token is the one just requested;
\* when an item cannot be read (1053-1061, 1412-1420) the token is already
\* the answer's (1046, 1405) and the page's comments are not pushed.
PageBodyFails(stage, next) ==
    /\ cpc = "yt_page"
    /\ stage \in {"json", "items"}
    /\ next \in IF stage = "json" THEN {nextPageToken} ELSE NextTokens(nextPageToken)
    /\ failuresLeft > 0
    /\ failuresLeft' = failuresLeft - 1
    /\ failedAttempts' = failedAttempts + 1
    /\ lastDelay' = BackoffBaseMs * Pow2(0)
    /\ ContinueStatement(next, 1)
    /\ UNCHANGED <<apiVars, callVars, apiKey, loopVars, comments, posts, videoVars,
                   commentCount, localNextPageToken, localTotalFetched,
                   totalCommentsFetched, pagesLeft>>

\* A page request of the full pagination flow succeeds (1041-1110, 1400-1469).
PageOk(items, next) ==
    /\ cpc = "yt_page"
    /\ items \in PageItems
    /\ next \in NextTokens(nextPageToken)
    /\ pagesLeft > 0
    /\ pagesLeft' = pagesLeft - 1
    /\ lastDelay' = 0
    /\ IF items # <<>>
         THEN LET newComments == NewComments(comments, videoId, items)
                  total == totalCommentsFetched + Len(newComments)
              IN  /\ totalCommentsFetched' = total
                  /\ comments' = comments \o newComments
                  /\ IF StopAfterPage(next, total, commentCount, failedAttempts)
                       THEN EndPass(next, 0)
                       ELSE ContinueStatement(next, 0)
         ELSE /\ EndPass(next, 0)
              /\ UNCHANGED <<comments, totalCommentsFetched>>
    /\ UNCHANGED <<apiVars, callVars, apiKey, loopVars, posts, videoVars, commentCount,
                   localNextPageToken, localTotalFetched, failedAttempts,
                   failuresLeft>>

\* fetchFromYouTube, commentCount <= 3: a do/while over commentThreads pages
\* with the duplicate check and no retry (924-995).
FewCommentsPage(items, next) ==
    /\ cpc = "yt_few"
    /\ ~request.isVideoTitleSearch
    /\ items \in PageItems
    /\ next \in NextTokens(localNextPageToken)
    /\ pagesLeft > 0
    /\ pagesLeft' = pagesLeft - 1
    /\ localNextPageToken' = next
    /\ IF items # <<>>
         THEN LET newComments == NewComments(comments, videoId, items)
                  total == localTotalFetched + Len(newComments)
              IN  /\ localTotalFetched' = total
                  /\ totalCommentsFetched' = total
                  /\ comments' = comments \o newComments
                  /\ cpc' = IF total >= commentCount \/ next = 0
                              THEN "yt_note" ELSE "yt_few"
         ELSE /\ cpc' = "yt_note"
              /\ UNCHANGED <<comments, localTotalFetched, totalCommentsFetched>>
    /\ UNCHANGED <<apiVars, callVars, apiKey, loopVars, posts, videoVars, commentCount,
                   nextPageToken, retryCount, failedAttempts, commentType,
                   lastDelay, failuresLeft>>

\* The same request fails: break (988-991) or the inner catch (993-995);
\* fetchFromYouTubeByTitle's single request likewise (1349-1354).
FewCommentsFails(kind) ==
    /\ cpc = "yt_few"
    /\ kind \in {"notok", "throw"}
    /\ cpc' = "yt_note"
    /\ UNCHANGED <<apiVars, callVars, apiKey, loopVars, comments, posts, videoVars, pageVars,
                   lastDelay, envVars>>

\* fetchFromYouTubeByTitle, commentCount <= 3: one commentThreads request,
\* every item pushed, no duplicate check (1311-1348).
FewCommentsOnce(items) ==
    /\ cpc = "yt_few"
    /\ request.isVideoTitleSearch
    /\ items \in PageItems
    /\ pagesLeft > 0
    /\ pagesLeft' = pagesLeft - 1
    /\ IF items # <<>>
         THEN /\ totalCommentsFetched' = Len(items)
              /\ comments' = comments \o
                    [i \in 1..Len(items) |-> ApiComment("YouTube", videoId, items[i])]
         ELSE UNCHANGED <<comments, totalCommentsFetched>>
    /\ cpc' = "yt_note"
    /\ UNCHANGED <<apiVars, callVars, apiKey, loopVars, posts, videoVars, commentCount,
                   nextPageToken, localNextPageToken, localTotalFetched, retryCount,
                   failedAttempts, commentType, lastDelay, failuresLeft>>

(***************************************************************************)
(* The retrieval note (1135-1175 and 1494-1534)                            *)
(***************************************************************************)
\* fetchFromYouTube: comments.filter(c => !c.isVideoMetadata).length - 1
\* (1136), over the records of every video so far, notes included.
\* fetchFromYouTubeByTitle: the records that are neither metadata nor note
\* (1495).
actualCommentCount(list, isTitle) ==
    IF isTitle
      THEN Len(SelectSeq(list, LAMBDA c : ~isVideoMetadata(c) /\ ~isCommentMetric(c)))
      ELSE Len(SelectSeq(list, LAMBDA c : ~isVideoMetadata(c))) - 1

retrievalPercentage(actual, count) == Min(100, Round(actual * 100, count))

significantDifference(actual, count) ==
    /\ retrievalPercentage(actual, count) < NoteThresholdPercent
    /\ count - actual > NoteThresholdAbsolute

apiNote(vid, count, actual) ==
    [Record("metric", "api", "YouTube", vid, 0) EXCEPT
        !.reported = count, !.retrieved = actual,
        !.percentage = retrievalPercentage(actual, count)]

WithApiNote(list, vid, count, isTitle) ==
    LET actual == actualCommentCount(list, isTitle)
    IN  IF count > 0 /\ actual > 0 /\ significantDifference(actual, count)
          THEN Append(list, apiNote(vid, count, actual))
          ELSE list

AddApiNote ==
    /\ cpc = "yt_note"
    /\ LET list == WithApiNote(comments, videoId, commentCount,
                               request.isVideoTitleSearch)
       IN  IF request.isVideoTitleSearch
             THEN Return("YouTube", "ok", list)
             ELSE /\ comments' = list
                  /\ cpc' = "yt_video"
                  /\ UNCHANGED <<apiVars, callVars, apiKey, loopVars, posts, videoVars,
                                 pageVars, lastDelay>>
    /\ UNCHANGED envVars

(***************************************************************************)
(* fetchFromTwitter (1711-1790)                                            *)
(***************************************************************************)
ApiList(platform, post, k) == [i \in 1..k |-> ApiComment(platform, post, i)]

TwitterNoKey(draw) ==
    /\ cpc = "tw_search"
    /\ ~apiKey
    /\ Return("Twitter (X)", "nokey", createCommentsData("Twitter (X)", draw))
    /\ UNCHANGED envVars

\* Non-OK response (1740-1744) or exception (1785-1789): [].
TwitterFails(kind) ==
    /\ cpc = "tw_search"
    /\ apiKey
    /\ kind \in {"notok", "throw"}
    /\ Return("Twitter (X)", "failed", <<>>)
    /\ UNCHANGED envVars

\* OK response with k tweets (k = 0: lines 1749-1752).
TwitterOk(k) ==
    /\ cpc = "tw_search"
    /\ apiKey
    /\ Return("Twitter (X)", IF k = 0 THEN "empty" ELSE "ok",
              ApiList("Twitter (X)", 0, k))
    /\ UNCHANGED envVars

(***************************************************************************)
(* fetchFromFacebook (1795-1878) and fetchFromInstagram (1883-1988)        *)
(***************************************************************************)
\* The platform whose posts are being read.
PostPlatform == IF cpc \in {"fb_search", "fb_post"} THEN "Facebook" ELSE "Instagram"

PostsNoKey(draw) ==
    /\ cpc \in {"fb_search", "ig_hashtag"}
    /\ ~apiKey
    /\ Return(PostPlatform, "nokey", createCommentsData(PostPlatform, draw))
    /\ UNCHANGED envVars

\* The search (1818-1822), hashtag (1907-1911) or media (1928-1932) request
\* is answered non-OK, or any request throws (1873-1877, 1983-1987): [].
PostsRequestFails(kind) ==
    /\ apiKey
    /\ \/ cpc \in {"fb_search", "ig_hashtag", "ig_media"} /\ kind \in {"notok", "throw"}
       \/ cpc \in {"fb_post", "ig_post"} /\ posts # <<>> /\ kind = "throw"
    /\ Return(PostPlatform, "failed", <<>>)
    /\ UNCHANGED envVars

\* Instagram's hashtag search answers OK (1913-1921).
InstagramHashtagOk(found) ==
    /\ cpc = "ig_hashtag"
    /\ apiKey
    /\ IF found
         THEN /\ cpc' = "ig_media"
              /\ UNCHANGED <<apiVars, callVars, apiKey, loopVars, comments, posts, videoVars,
                             pageVars, lastDelay>>
         ELSE Return("Instagram", "empty", <<>>)
    /\ UNCHANGED envVars

\* The post search (1824-1830) or media listing (1934-1940) answers OK with
\* n entries.
PostsFound(n) ==
    /\ apiKey
    /\ cpc \in {"fb_search", "ig_media"}
    /\ IF n = 0
         THEN Return(PostPlatform, "empty", <<>>)
         ELSE /\ posts' = [i \in 1..n |-> i]
              /\ comments' = <<>>
              /\ cpc' = IF cpc = "fb_search" THEN "fb_post" ELSE "ig_post"
              /\ UNCHANGED <<apiVars, callVars, apiKey, loopVars, videoVars, pageVars,
                             lastDelay>>
    /\ UNCHANGED envVars

\* The comments of one post: a non-OK answer skips the post (1838-1841,
\* 1948-1951), an OK answer adds its k comments (1843-1862, 1953-1972).
PostComments(ok, k) ==
    /\ cpc \in {"fb_post", "ig_post"}
    /\ posts # <<>>
    /\ ok \/ k = 0
    /\ comments' = comments \o ApiList(PostPlatform, Head(posts), k)
    /\ posts' = Tail(posts)
    /\ UNCHANGED <<apiVars, cpc, callVars, apiKey, loopVars, videoVars, pageVars, lastDelay,
                   envVars>>

\* After the last post (1865-1872, 1975-1982).
PostsReturn ==
    /\ cpc \in {"fb_post", "ig_post"}
    /\ posts = <<>>
    /\ Return(PostPlatform, IF comments = <<>> THEN "empty" ELSE "ok", comments)
    /\ UNCHANGED envVars

(***************************************************************************)
(* The collector as a state machine                                        *)
(***************************************************************************)
Draws == 0..MaxRandomDraw

CollectorStart ==
    /\ cpc = "idle"
    /\ request = [platform |-> "all", isVideoTitleSearch |-> FALSE]
    /\ apiKey = FALSE
    /\ platforms = <<>>
    /\ platIdx = 1
    /\ allComments = <<>>
    /\ comments = <<>>
    /\ videoIds = <<>>
    /\ videoId = 0
    /\ commentCount = 0
    /\ nextPageToken = 0
    /\ localNextPageToken = 0
    /\ localTotalFetched = 0
    /\ totalCommentsFetched = 0
    /\ retryCount = 0
    /\ failedAttempts = 0
    /\ commentType = 1
    /\ posts = <<>>
    /\ result = <<>>
    /\ lastDelay = 0
    /\ outcomes = <<>>
    /\ reported = [v \in 1..MaxVideos |-> 0]
    /\ failuresLeft = MaxFailures
    /\ pagesLeft = MaxPageResponses

CollectorInit == CollectorStart /\ ApiStart

CollectorNext ==
    \/ \E p \in PlatformParams, t \in BOOLEAN, k \in BOOLEAN : CollectComments(p, t, k)
    \/ \E k \in BOOLEAN : FetchCommentsFromPlatform(k)
    \/ CollectCommentsReturn
    \/ \E d \in Draws : YouTubeNoKey(d)
    \/ \E k \in {"403", "notok", "throw"}, d \in Draws : YouTubeSearchFails(k, d)
    \/ \E d \in Draws : YouTubeSearchEmpty(d)
    \/ \E n \in 1..MaxVideos : YouTubeSearchFound(n)
    \/ NextVideo
    \/ YouTubeReturn
    \/ \E d \in Draws : DetailsThrows(d)
    \/ DetailsUnavailable
    \/ \E n \in 0..MaxReported, o \in UndeclaredAssignmentOutcomes : DetailsOk(n, o)
    \/ NextCommentType
    \/ \E k \in {"notok", "throw"} : PageFails(k)
    \/ \E st \in {"json", "items"}, next \in 0..MaxPages : PageBodyFails(st, next)
    \/ \E items \in PageItems, next \in 0..MaxPages : PageOk(items, next)
    \/ \E items \in PageItems, next \in 0..MaxPages : FewCommentsPage(items, next)
    \/ \E k \in {"notok", "throw"} : FewCommentsFails(k)
    \/ \E items \in PageItems : FewCommentsOnce(items)
    \/ AddApiNote
    \/ \E d \in Draws : TwitterNoKey(d)
    \/ \E k \in {"notok", "throw"} : TwitterFails(k)
    \/ \E k \in 0..MaxApiItems : TwitterOk(k)
    \/ \E d \in Draws : PostsNoKey(d)
    \/ \E k \in {"notok", "throw"} : PostsRequestFails(k)
    \/ \E f \in BOOLEAN : InstagramHashtagOk(f)
    \/ \E n \in 0..MaxPosts : PostsFound(n)
    \/ \E ok \in BOOLEAN, k \in 0..MaxApiItems : PostComments(ok, k)
    \/ PostsReturn

SpecCollector == CollectorInit /\ [][CollectorNext]_vars

(***************************************************************************)
(* Properties of the collector                                             *)
(***************************************************************************)
HasSample(list) == \E i \in 1..Len(list) : list[i].origin = "sample"

\* C3: for every collection entry point, generated sample records are
\* returned only when no credential is configured; with a credential the
\* returned list holds only records from the platform API or is empty,
\* whatever the upstream did.
C3_SampleOnlyWithoutCredential ==
    \A i \in 1..Len(outcomes) :
        HasSample(outcomes[i].list) => outcomes[i].status = "nokey"

\* The case of C3: a fetch with a credential configured whose request failed
\* or found nothing.
C3_CredentialAndUpstreamFailure ==
    \E i \in 1..Len(outcomes) : outcomes[i].status \in {"failed", "empty"}

\* The actual comments of a list.
ActualComments(list) ==
    SelectSeq(list, LAMBDA c : ~isVideoMetadata(c) /\ ~isCommentMetric(c))

NoDuplicateSourceUrl(list) ==
    LET actual == ActualComments(list)
    IN  \A i, j \in 1..Len(actual) :
            SourceUrl(actual[i]) = SourceUrl(actual[j]) => i = j

\* C4: whatever pages the platform returns during YouTube comment retrieval
\* (overlapping pages, an id repeated inside a page or across the two
\* passes), the accumulated list never holds two actual comments with the
\* same sourceUrl.
C4_NoDuplicateComments == NoDuplicateSourceUrl(comments)

\* The case of C4: a second page has been processed and the list holds
\* comments.
C4_PagesAccumulated ==
    /\ cpc \in {"yt_page", "yt_few", "yt_pass_end", "yt_note"}
    /\ pagesLeft = 0
    /\ ActualComments(comments) # <<>>

\* A step in which a page request of the full pagination flow failed.
PageRequestFailed ==
    cpc = "yt_page" /\ failedAttempts' = failedAttempts + 1

\* C5: a failed page request is re-attempted for the same page, after
\* 1 s, 2 s, 4 s, up to 3 times, on the first page of a pass as on later
\* pages; the page is abandoned only when the retries are used up, and the
\* comments accumulated so far are kept.
C5_FailedPageIsRetried ==
    [][PageRequestFailed =>
         /\ comments' = comments
         /\ IF retryCount < maxRetries
              THEN /\ cpc' = "yt_page"
                   /\ commentType' = commentType
                   /\ nextPageToken' = nextPageToken
                   /\ retryCount' = retryCount + 1
                   /\ lastDelay' = BackoffBaseMs * Pow2(retryCount)
              ELSE cpc' = "yt_pass_end"]_vars

\* The case of C5: a page request is pending again after a failed attempt
\* was answered with a retry and its delay.
C5_RetryPending ==
    cpc = "yt_page" /\ retryCount > 0 /\ lastDelay > 0

\* A step in which an answered page added comments to the item.
PageAddedComments ==
    cpc = "yt_page" /\ totalCommentsFetched' > totalCommentsFetched

RetrievedFor(list, vid) ==
    Len(SelectSeq(ActualComments(list), LAMBDA c : c.vid = vid))

\* The list after the note step: fetchFromYouTubeByTitle returns it,
\* fetchFromYouTube keeps it in `comments`.
ListAfterNote ==
    IF request.isVideoTitleSearch THEN outcomes'[Len(outcomes')].list ELSE comments'

StoredComment(kind, platform, userName, sentiment, topics) ==
    [kind |-> kind, origin |-> "api", platform |-> platform, userName |-> userName,
     sentiment |-> sentiment, topics |-> topics,
     engagementScore |-> 0, day |-> TrendDays]

\* Math.round(x) of a division by zero (0 / 0 is NaN): the marker for NaN.
NaN == -1

\* Math.round((count / total) * 100)
Percentage(count, total) == IF total = 0 THEN NaN ELSE Round(count * 100, total)

\* list.filter(c => c.sentiment === s).length
SentimentCount(list, s) == Len(SelectSeq(list, LAMBDA c : c.sentiment = s))

\* Array.prototype.slice(start, end) for 0 <= start <= end.
Slice(list, start, end) == SubSeq(list, start + 1, Min(end, Len(list)))

\* Counting into a Record<string, number>: Object.entries lists the keys in
\* the order of their first insertion.
RECURSIVE CountKeys(_, _)
CountKeys(keys, entries) ==
    IF keys = <<>> THEN entries
    ELSE LET k == Head(keys)
             known == \E i \in 1..Len(entries) : entries[i].name = k
         IN  CountKeys(Tail(keys),
                 IF known
                   THEN [i \in 1..Len(entries) |->
                           IF entries[i].name = k
                             THEN [entries[i] EXCEPT !.value = @ + 1]
                             ELSE entries[i]]
                   ELSE Append(entries, [name |-> k, value |-> 1]))

\* .sort((a, b) => b.value - a.value): a stable sort, larger values first.
RECURSIVE SortDescending(_)
SortDescending(entries) ==
    IF entries = <<>> THEN <<>>
    ELSE LET sorted == SortDescending(SubSeq(entries, 1, Len(entries) - 1))
             e == entries[Len(entries)]
             before == SelectSeq(sorted, LAMBDA x : x.value >= e.value)
             after == SelectSeq(sorted, LAMBDA x : x.value < e.value)
         IN  before \o <<e>> \o after

\* const actualComments = allComments.filter(...)  (lines 207-209, 252-254)
actualComments(allStored) ==
    SelectSeq(allStored, LAMBDA c : ~isVideoMetadata(c) /\ ~isCommentMetric(c))

\* platformCounts / platformDistribution (lines 280-297)
platformDistribution(list) ==
    CountKeys([i \in 1..Len(list) |-> list[i].platform], <<>>)

\* topicCounts / topicDistribution (lines 300-327): the ten most frequent.
topicDistribution(list) ==
    Slice(SortDescending(
              CountKeys(Concat([i \in 1..Len(list) |-> list[i].topics]), <<>>)),
          0, 10)

\* extractKeywords (lines 379-404), for the topics, which weigh 3 each, and
\* topKeywords (330-331): the thirty heaviest.
topKeywords(list) ==
    LET counted == CountKeys(Concat([i \in 1..Len(list) |-> list[i].topics]), <<>>)
        weighted == [i \in 1..Len(counted) |-> [counted[i] EXCEPT !.value = 3 * @]]
    IN  Slice(SortDescending(weighted), 0, 30)

\* The variations Math.random() * 10 - 5 (line 491) drawn in one call of
\* generateSentimentTrend, one per day, in eighths of a percent: here the
\* same on every day, -5, 0 or 1 of the interval [-5, 5).
RandomDraws == {[d \in 1..TrendDays |-> v] : v \in {-40, 0, 8}}

\* The draws of the analytics the routes request: Math.random() = 0.5.
SteadyDraws == {[d \in 1..TrendDays |-> 0]}

\* Lines 488-518: the entry of a day without comments.  randomVariation is
\* Math.random() * 10 - 5 in eighths of a percent, a multiple of 4, so that
\* randomVariation * -0.5 and excess / 2 are whole numbers of eighths.
gapEntry(lastValidPercentages, randomVariation) ==
    LET \* Math.max(0, Math.min(100, x)) and Math.round(x) for x in eighths
        Clamp(x) == IF x < 0 THEN 0 ELSE IF x > 800 THEN 800 ELSE x
        RoundEighths(x) == (x + 4) \div 8
        positive0 == Clamp(8 * lastValidPercentages.positive + randomVariation)
        negative0 == Clamp(8 * lastValidPercentages.negative
                           - (randomVariation \div 2))
        excess == positive0 + negative0 - 760
        positive == IF excess > 0 THEN positive0 - (excess \div 2) ELSE positive0
        negative == IF excess > 0 THEN negative0 - (excess \div 2) ELSE negative0
        neutral == IF 800 - positive - negative < 0 THEN 0
                   ELSE 800 - positive - negative
    IN  [filled |-> TRUE,
         positive |-> RoundEighths(positive),
         negative |-> RoundEighths(negative),
         neutral |-> RoundEighths(neutral)]

\* Lines 473-487: the entry of a day with comments.
dayEntry(dayData) ==
    LET positive == Percentage(SentimentCount(dayData, "positive"), Len(dayData))
        negative == Percentage(SentimentCount(dayData, "negative"), Len(dayData))
    IN  [filled |-> FALSE, positive |-> positive, negative |-> negative,
         neutral |-> 100 - positive - negative]

\* Lines 469-520: the entries from day d on, in chronological order.
RECURSIVE trendFrom(_, _, _, _)
trendFrom(d, list, lastValidPercentages, random) ==
    IF d > TrendDays THEN <<>>
    ELSE LET dayData == SelectSeq(list, LAMBDA c : c.day = d)
             entry == IF \E i \in 1..Len(list) : list[i].day = d
                        THEN dayEntry(dayData)
                        ELSE gapEntry(lastValidPercentages, random[d])
         IN  <<[date |-> d, filled |-> entry.filled, positive |-> entry.positive,
                neutral |-> entry.neutral, negative |-> entry.negative]>>
               \o trendFrom(d + 1, list, entry, random)

\* generateSentimentTrend (412-522): one entry per day of the window, the
\* last one today's; the date of an entry is the number of its day.  A comment dated before the window (day 0) is skipped
\* (line 448); random[d] is the variation drawn on day d.
generateSentimentTrend(list, random) ==
    trendFrom(1, list, [positive |-> 33, neutral |-> 34, negative |-> 33], random)

\* The characters of the user names that occur.
digits(n) ==
    LET digit == <<"0", "1", "2", "3", "4", "5", "6", "7", "8", "9">>
    IN  IF n < 10 THEN <<digit[n + 1]>>
        ELSE <<digit[(n \div 10) + 1], digit[(n % 10) + 1]>>

FanName(i) == "Fan " \o ToString(i)

Chars(name) ==
    CASE name = "asha" -> <<"a", "s", "h", "a">>
      [] name = "ravi" -> <<"r", "a", "v", "i">>
      [] name = "UserA" -> <<"U", "s", "e", "r", "A">>
      [] name = "Ravi  Kumar" -> <<"R", "a", "v", "i", " ", " ", "K", "u", "m", "a", "r">>
      [] name = "VIDEO_METADATA" ->
           <<"V", "I", "D", "E", "O", "_", "M", "E", "T", "A", "D", "A", "T", "A">>
      [] name = "VIDEO_INFO" -> <<"V", "I", "D", "E", "O", "_", "I", "N", "F", "O">>
      [] OTHER -> LET i == CHOOSE k \in 1..99 : name = FanName(k)
                  IN  <<"F", "a", "n", " ">> \o digits(i)

\* String.prototype.toLowerCase, a character at a time.
toLowerCase(chars) ==
    LET upper == <<"A", "B", "C", "D", "E", "F", "G", "H", "I", "J", "K", "L", "M",
                   "N", "O", "P", "Q", "R", "S", "T", "U", "V", "W", "X", "Y", "Z">>
        lower == <<"a", "b", "c", "d", "e", "f", "g", "h", "i", "j", "k", "l", "m",
                   "n", "o", "p", "q", "r", "s", "t", "u", "v", "w", "x", "y", "z">>
    IN  [i \in 1..Len(chars) |->
            IF \E k \in 1..Len(upper) : upper[k] = chars[i]
              THEN lower[CHOOSE k \in 1..Len(upper) : upper[k] = chars[i]]
              ELSE chars[i]]

\* .replace(/\s+/g, '')
removeWhitespace(chars) == SelectSeq(chars, LAMBDA ch : ch \notin {" ", "\t", "\n"})

\* A handle that keeps the case of the name: not what the code does.
handleKeepingCase(userName) == removeWhitespace(Chars(userName))

\* const handle = name.toLowerCase().replace(/\s+/g, '')  (line 561)
handle(userName) == removeWhitespace(toLowerCase(Chars(userName)))

\* findInfluencers (524-580)
findInfluencers(list) ==
    LET users == CountKeys([i \in 1..Len(list) |->
                              <<list[i].userName, list[i].platform>>], <<>>)
        Of(u) == SelectSeq(list, LAMBDA c : <<c.userName, c.platform>> = u)
        influencer(e) ==
            LET own == Of(e.name)
                positive == SentimentCount(own, "positive")
                negative == SentimentCount(own, "negative")
            IN  [name |-> e.name[1], platform |-> e.name[2], value |-> e.value,
                 handle |-> handle(e.name[1]),
                 engagementLevel |-> IF e.value > 15 THEN "High"
                                     ELSE IF e.value > 5 THEN "Medium" ELSE "Low",
                 positive |-> Percentage(positive, e.value),
                 neutral |-> Percentage(e.value - positive - negative, e.value),
                 negative |-> Percentage(negative, e.value)]
    IN  Slice(SortDescending([i \in 1..Len(users) |-> influencer(users[i])]), 0, 10)

\* generateAIInsights (582-598): the template used and the values it is
\* filled with; the positive one has the fixed text "a 12% increase".
generateAIInsights(positiveSentiment, negativeSentiment, topics, rate) ==
    LET mainSentiment ==
            IF positiveSentiment > negativeSentiment THEN "positive" ELSE "negative"
        topTopic == IF Len(topics) > 0 THEN topics[1].name
                    ELSE "various topics"
    IN  IF mainSentiment = "positive"
          THEN [template |-> "positive", topTopic |-> topTopic, increase |-> 12,
                engagementRate |-> rate]
          ELSE [template |-> "negative", negativeSentiment |-> negativeSentiment,
                topTopic |-> topTopic, positiveSentiment |-> positiveSentiment,
                engagementRate |-> rate]

\* An empty state that reports missing data whatever credentials are
\* stored: not what the code does.
generateMockAnalyticsWithoutKeyCheck(searchQueryId, keys) ==
    [searchQueryId |-> searchQueryId,
     totalComments |-> 0,
     positiveSentiment |-> 0,
     negativeSentiment |-> 0,
     engagementRate |-> 0,
     sentimentTrend |-> <<>>,
     topicDistribution |-> <<>>,
     platformDistribution |-> <<>>,
     topKeywords |-> <<>>,
     influencers |-> <<>>,
     aiInsights |-> [template |-> "no-data"]]

\* generateMockAnalytics (600-647)
generateMockAnalytics(searchQueryId, keys) ==
    [searchQueryId |-> searchQueryId,
     totalComments |-> 0,
     positiveSentiment |-> 0,
     negativeSentiment |-> 0,
     engagementRate |-> 0,
     sentimentTrend |-> <<>>,
     topicDistribution |-> <<>>,
     platformDistribution |-> <<>>,
     topKeywords |-> <<>>,
     influencers |-> <<>>,
     aiInsights |-> [template |-> IF keys = {} THEN "no-api-keys" ELSE "no-data"]]

\* actualComments.reduce((sum, comment) => sum + (comment.engagementScore || 0), 0)
RECURSIVE totalEngagement(_)
totalEngagement(list) ==
    IF list = <<>> THEN 0 ELSE Head(list).engagementScore + totalEngagement(Tail(list))

\* engagementRate (lines 269-276), in hundredths of a percent: the average
\* engagement, weighted by min(totalComments / 100, 1) and by
\* 1 + |positive - negative| / 100 * 0.5, times 5, rounded to two decimals
\* and capped at 100.  Without comments the percentages are NaN and so is
\* the rate.
engagementRate(list, positiveSentiment, negativeSentiment) ==
    LET totalComments == Len(list)
        difference == IF positiveSentiment >= negativeSentiment
                        THEN positiveSentiment - negativeSentiment
                        ELSE negativeSentiment - positiveSentiment
        raw == IF totalComments <= 100
                 THEN Round(totalEngagement(list) * (200 + difference), 40)
                 ELSE Round(totalEngagement(list) * (200 + difference) * 5,
                            2 * totalComments)
    IN  IF totalComments = 0 THEN NaN ELSE Min(raw, 10000)

\* generateAnalytics (244-377): the analytics object it caches and returns;
\* random holds the variations generateSentimentTrend draws.
generateAnalytics(searchQueryId, allStored, keys, random) ==
    IF Len(allStored) = 0
      THEN generateMockAnalytics(searchQueryId, keys)
      ELSE LET actual == actualComments(allStored)
               totalComments == Len(actual)
               positiveSentiment ==
                   Percentage(SentimentCount(actual, "positive"), totalComments)
               negativeSentiment ==
                   Percentage(SentimentCount(actual, "negative"), totalComments)
               rate == engagementRate(actual, positiveSentiment, negativeSentiment)
           IN  [searchQueryId |-> searchQueryId,
                totalComments |-> totalComments,
                positiveSentiment |-> positiveSentiment,
                negativeSentiment |-> negativeSentiment,
                engagementRate |-> rate,
                sentimentTrend |-> generateSentimentTrend(actual, random),
                topicDistribution |-> topicDistribution(actual),
                platformDistribution |-> platformDistribution(actual),
                topKeywords |-> topKeywords(actual),
                influencers |-> findInfluencers(actual),
                aiInsights |-> generateAIInsights(positiveSentiment, negativeSentiment,
                                                  topicDistribution(actual), rate)]

\* query.keyword === keyword && query.timeperiod === timeperiod &&
\* query.platform === platform (lines 163-165)
Matches(query, keyword, timeperiod, platform) ==
    /\ query.keyword = keyword
    /\ query.timeperiod = timeperiod
    /\ query.platform = platform

\* Array.from(this.searchQueries.values()).find(...): the first match in
\* insertion order; 0 for undefined.
matchingQuery(queries, keyword, timeperiod, platform) ==
    LET ids == {i \in 1..Len(queries) : Matches(queries[i], keyword, timeperiod, platform)}
    IN  IF ids = {} THEN 0 ELSE CHOOSE i \in ids : \A j \in ids : i <= j

\* A lookup that compares keyword and timeperiod only: not what the code
\* does.
getSearchResultsIgnoringPlatform(queries, cached, keyword, timeperiod, platform) ==
    LET ids == {i \in DOMAIN cached :
                  /\ i \in 1..Len(queries)
                  /\ queries[i].keyword = keyword
                  /\ queries[i].timeperiod = timeperiod}
    IN  IF ids = {} THEN 0 ELSE CHOOSE i \in ids : \A j \in ids : i <= j

\* getSearchResultsByKeyword (156-183): the id whose cached analytics are
\* returned, 0 for undefined.
getSearchResultsByKeyword(queries, cached, keyword, timeperiod, platform) ==
    LET id == matchingQuery(queries, keyword, timeperiod, platform)
    IN  IF id = 0 \/ id \notin DOMAIN cached THEN 0 ELSE id

\* A listing that filters out the metadata records only: not what the code
\* does.
getCommentsKeepingNotes(stored, searchQueryId, page, pageSize) ==
    LET allStored == IF searchQueryId \in DOMAIN stored
                       THEN stored[searchQueryId] ELSE <<>>
    IN  Slice(SelectSeq(allStored, LAMBDA c : ~isVideoMetadata(c)),
              (page - 1) * pageSize, (page - 1) * pageSize + pageSize)

\* getCommentsBySearchQueryId (203-219)
getCommentsBySearchQueryId(stored, searchQueryId, page, pageSize) ==
    LET allStored == IF searchQueryId \in DOMAIN stored
                       THEN stored[searchQueryId] ELSE <<>>
    IN  Slice(actualComments(allStored), (page - 1) * pageSize,
              (page - 1) * pageSize + pageSize)

(***************************************************************************)
(* What collectComments, analyzeBatch and extractTopics hand to the routes *)
(***************************************************************************)
Keywords == {"roads"}
Timeperiods == {30}
RoutePlatforms == {"all", "youtube"}
Moods == {"positive", "mixed"}
StoredSizes == 0..MaxStoredComments

\* n analysed comments of two users on two platforms.
Body(n, mood) ==
    [i \in 1..n |->
        StoredComment("comment",
            IF i % 2 = 1 THEN "YouTube" ELSE "Twitter (X)",
            IF i <= 2 THEN "asha" ELSE "ravi",
            IF mood = "mixed"
              THEN (CASE i % 3 = 1 -> "positive"
                      [] i % 3 = 2 -> "negative"
                      [] OTHER -> "neutral")
              ELSE mood,
            IF i % 2 = 1 THEN <<"roads">> ELSE <<"water", "roads">>)]

\* The metadata pseudo-comment of a title search (1275-1296) and the metric
\* note (1147-1170, 1506-1529), after the pipeline labelled them.
Metadata ==
    StoredComment("metadata", "YouTube", "VIDEO_METADATA", "neutral", <<"video_metadata">>)
ApiNote == StoredComment("metric", "YouTube", "VIDEO_INFO", "neutral", <<"video_info">>)

\* The lists a collection can end with.  A title search returns the metadata
\* record first, whether the data is generated or fetched; the note follows
\* the comments it is about, in the keyword search only when the list holds
\* two records or more (1136-1144).
CollectedLists(isVideoTitleSearch) ==
    LET first == IF isVideoTitleSearch THEN <<Metadata>> ELSE <<>>
        least == IF isVideoTitleSearch THEN 1 ELSE 2
    IN  {first \o Body(n, mood) : n \in StoredSizes, mood \in Moods}
        \cup {first \o Body(n, mood) \o <<ApiNote>> :
                 n \in {k \in StoredSizes : k >= least}, mood \in Moods}

(***************************************************************************)
(* routes.ts: GET /api/analyze with pages of comments, GET /api/comments   *)
(***************************************************************************)
AnalyzeRequest(keyword, timeperiod, platform, refresh, page, isVideoTitleSearch) ==
    [route |-> "analyze", keyword |-> keyword, timeperiod |-> timeperiod,
     platform |-> platform, refresh |-> refresh, page |-> page,
     isVideoTitleSearch |-> isVideoTitleSearch]

CommentsRequest(queryId, page, pageSize) ==
    [route |-> "comments", queryId |-> queryId, page |-> page, pageSize |-> pageSize]

\* const cachedResults = await storage.getSearchResultsByKeyword(...)
cachedResults(r) ==
    getSearchResultsByKeyword(searchQueries, cachedAnalytics,
                              r.keyword, r.timeperiod, r.platform)

RemoveAt(s, i) == SubSeq(s, 1, i - 1) \o SubSeq(s, i + 1, Len(s))

\* The list of a collection whose fetch methods found the keys loaded: the
\* comments of a platform without a key are generated ones (mediaCollector.ts
\* 842-849, 1207-1213, and the same test in the other fetch methods).
fetchedWith(list, loaded) ==
    LET key(platform) == CASE platform = "YouTube" -> "youtube"
                           [] platform = "Twitter (X)" -> "twitter"
                           [] platform = "Facebook" -> "facebook"
                           [] OTHER -> "instagram"
    IN  [i \in 1..Len(list) |->
            IF list[i].kind = "comment" /\ key(list[i].platform) \notin loaded
              THEN [list[i] EXCEPT !.origin = "sample"]
              ELSE list[i]]

\* The request reaches the collector (line 753 / part_005 line 105): the
\* handler waits for collectComments, whose first fetch method loads the
\* keys at once (loadApiKeys, mediaCollector.ts 842); they are kept with the
\* waiting request as loaded.
Collect(r) ==
    /\ requests < MaxRequests
    /\ Len(searchQueries) + Len(pending) < MaxQueries
    /\ requests' = requests + 1
    /\ lastRequest' = r
    /\ pending' = Append(pending, r @@ [loaded |-> apiKeys])
    /\ collectorCalls' = collectorCalls + 1
    /\ UNCHANGED <<searchQueries, storedComments, cachedAnalytics, apiKeys, response>>
    /\ UNCHANGED collVars

\* saveSearchQuery, saveComments, generateAnalytics (lines 761-769 /
\* part_005 113-121), as one step of the store.
Save(query, list) ==
    LET id == Len(searchQueries) + 1
    IN  /\ searchQueries' = Append(searchQueries, query)
        /\ storedComments' = Append(storedComments, list)
        /\ cachedAnalytics' =
              Append(cachedAnalytics,
                     generateAnalytics(id, list, apiKeys,
                                       CHOOSE random \in SteadyDraws : TRUE))

\* Cache hit without the refresh flag (lines 735-752).
AnalyzePagedCached(r) ==
    /\ requests < MaxRequests
    /\ cachedResults(r) # 0
    /\ ~r.refresh
    /\ requests' = requests + 1
    /\ lastRequest' = r
    /\ LET paginatedComments ==
               getCommentsBySearchQueryId(storedComments, cachedResults(r),
                                          r.page, AnalyzePageSize)
       IN  response' = [kind |-> "analytics", from |-> "cache", to |-> r,
                        analytics |-> cachedAnalytics[cachedResults(r)],
                        comments |-> paginatedComments,
                        hasMoreComments |-> Len(paginatedComments) = AnalyzePageSize]
    /\ UNCHANGED <<searchQueries, storedComments, cachedAnalytics, apiKeys, pending,
                   collectorCalls>>
    /\ UNCHANGED collVars

\* No cached result, or the refresh flag: collect (line 753).
AnalyzePagedCollect(r) ==
    /\ ~(cachedResults(r) # 0 /\ ~r.refresh)
    /\ Collect(r)

\* collectComments returned (lines 753-781).
AnalyzePagedFinish(i, list) ==
    /\ i \in 1..Len(pending)
    /\ list \in CollectedLists(FALSE)
    /\ LET r == [f \in DOMAIN pending[i] \ {"loaded"} |-> pending[i][f]]
           id == Len(searchQueries) + 1
       IN  /\ Save([keyword |-> r.keyword, timeperiod |-> r.timeperiod,
                    platform |-> r.platform], fetchedWith(list, pending[i].loaded))
           /\ LET firstPageComments ==
                      getCommentsBySearchQueryId(storedComments', id, 1, AnalyzePageSize)
              IN  response' = [kind |-> "analytics", from |-> "collector", to |-> r,
                               analytics |-> cachedAnalytics'[id],
                               comments |-> firstPageComments,
                               hasMoreComments |->
                                   Len(firstPageComments) = AnalyzePageSize]
    /\ pending' = RemoveAt(pending, i)
    /\ UNCHANGED <<apiKeys, lastRequest, requests, collectorCalls>>
    /\ UNCHANGED collVars

\* GET /api/comments (lines 786-806).
GetComments(queryId, page, pageSize) ==
    /\ requests < MaxRequests
    /\ requests' = requests + 1
    /\ lastRequest' = CommentsRequest(queryId, page, pageSize)
    /\ LET list == getCommentsBySearchQueryId(storedComments, queryId, page, pageSize)
       IN  response' = [kind |-> "comments", to |-> lastRequest',
                        comments |-> list, hasMore |-> Len(list) = pageSize]
    /\ UNCHANGED <<searchQueries, storedComments, cachedAnalytics, apiKeys, pending,
                   collectorCalls>>
    /\ UNCHANGED collVars

\* saveApiKey (226-229) with a non-empty key.
SaveApiKey(platform) ==
    /\ platform \notin apiKeys
    /\ apiKeys' = apiKeys \cup {platform}
    /\ UNCHANGED <<searchQueries, storedComments, cachedAnalytics, pending,
                   lastRequest, response, requests, collectorCalls>>
    /\ UNCHANGED collVars

PagedRequests ==
    {AnalyzeRequest(k, t, p, f, n, FALSE) :
        k \in Keywords, t \in Timeperiods, p \in RoutePlatforms, f \in BOOLEAN,
        n \in 1..MaxPage}

\* The collector is idle while the routes are exercised: its result is drawn
\* from CollectedLists.
ApiInit == CollectorInit

PagedNext ==
    \/ \E r \in PagedRequests : AnalyzePagedCached(r)
    \/ \E r \in PagedRequests : AnalyzePagedCollect(r)
    \/ \E i \in 1..MaxQueries, list \in CollectedLists(FALSE) : AnalyzePagedFinish(i, list)
    \/ \E q \in 1..MaxQueries, n \in 1..MaxPage, size \in 1..MaxPageSize :
          GetComments(q, n, size)
    \/ SaveApiKey("youtube")

SpecPaged == ApiInit /\ [][PagedNext]_vars

(***************************************************************************)
(* routes.ts, the version with video-title search (part_005)               *)
(***************************************************************************)
\* getAllCommentsBySearchQueryId: the "all" listing of a query's comments,
\* without metadata records and metric notes, and their number.
getAllCommentsBySearchQueryId(stored, searchQueryId) ==
    LET allStored == IF searchQueryId \in DOMAIN stored
                       THEN stored[searchQueryId] ELSE <<>>
    IN  [comments |-> actualComments(allStored),
         total |-> Len(actualComments(allStored))]

\* const shouldUseCache = !isVideoTitleSearch && !req.query.refresh (line 83)
shouldUseCache(r) == ~r.isVideoTitleSearch /\ ~r.refresh

\* Cache hit (lines 86-101).
AnalyzeCached(r) ==
    /\ requests < MaxRequests
    /\ shouldUseCache(r)
    /\ cachedResults(r) # 0
    /\ requests' = requests + 1
    /\ lastRequest' = r
    /\ LET allCommentsResult ==
               getAllCommentsBySearchQueryId(storedComments, cachedResults(r))
       IN  response' = [kind |-> "analytics", from |-> "cache", to |-> r,
                        analytics |-> cachedAnalytics[cachedResults(r)],
                        comments |-> allCommentsResult.comments,
                        totalComments |-> allCommentsResult.total]
    /\ UNCHANGED <<searchQueries, storedComments, cachedAnalytics, apiKeys, pending,
                   collectorCalls>>
    /\ UNCHANGED collVars

\* No cached result, the refresh flag, or a title search: collect (line 105).
AnalyzeCollect(r) ==
    /\ ~(shouldUseCache(r) /\ cachedResults(r) # 0)
    /\ Collect(r)

\* collectComments returned (lines 105-176).  The title search removes the
\* records named VIDEO_METADATA from the listing (153-160).
AnalyzeFinish(i, list) ==
    /\ i \in 1..Len(pending)
    /\ list \in CollectedLists(pending[i].isVideoTitleSearch)
    /\ LET r == [f \in DOMAIN pending[i] \ {"loaded"} |-> pending[i][f]]
           id == Len(searchQueries) + 1
       IN  /\ Save([keyword |-> r.keyword, timeperiod |-> r.timeperiod,
                    platform |-> r.platform,
                    isVideoTitleSearch |-> r.isVideoTitleSearch],
                   fetchedWith(list, pending[i].loaded))
           /\ LET allCommentsResult ==
                      getAllCommentsBySearchQueryId(storedComments', id)
                  filteredComments ==
                      SelectSeq(allCommentsResult.comments,
                                LAMBDA c : c.userName # "VIDEO_METADATA")
                  metadataFound ==
                      /\ r.isVideoTitleSearch
                      /\ \E k \in 1..Len(list) : list[k].userName = "VIDEO_METADATA"
              IN  response' =
                    [kind |-> "analytics", from |-> "collector", to |-> r,
                     analytics |-> cachedAnalytics'[id],
                     comments |-> IF metadataFound THEN filteredComments
                                  ELSE allCommentsResult.comments,
                     totalComments |->
                        IF metadataFound
                          THEN allCommentsResult.total
                               - (Len(allCommentsResult.comments) - Len(filteredComments))
                          ELSE allCommentsResult.total]
    /\ pending' = RemoveAt(pending, i)
    /\ UNCHANGED <<apiKeys, lastRequest, requests, collectorCalls>>
    /\ UNCHANGED collVars

\* GET /api/comments (lines 185-204).
GetAllComments(queryId) ==
    /\ requests < MaxRequests
    /\ requests' = requests + 1
    /\ lastRequest' = [route |-> "comments", queryId |-> queryId]
    /\ LET allCommentsResult == getAllCommentsBySearchQueryId(storedComments, queryId)
       IN  response' = [kind |-> "comments", to |-> lastRequest',
                        comments |-> allCommentsResult.comments,
                        total |-> allCommentsResult.total]
    /\ UNCHANGED <<searchQueries, storedComments, cachedAnalytics, apiKeys, pending,
                   collectorCalls>>
    /\ UNCHANGED collVars

UnpagedRequests ==
    {AnalyzeRequest(k, t, p, f, 1, title) :
        k \in Keywords, t \in Timeperiods, p \in RoutePlatforms, f \in BOOLEAN,
        title \in BOOLEAN}

UnpagedNext ==
    \/ \E r \in UnpagedRequests : AnalyzeCached(r)
    \/ \E r \in UnpagedRequests : AnalyzeCollect(r)
    \/ \E i \in 1..MaxQueries, list \in CollectedLists(TRUE) \cup CollectedLists(FALSE) :
          AnalyzeFinish(i, list)
    \/ \E q \in 1..MaxQueries : GetAllComments(q)
    \/ SaveApiKey("youtube")

SpecUnpaged == ApiInit /\ [][UnpagedNext]_vars

(***************************************************************************)
(* MemStorage called directly: saveSearchQuery and saveComments            *)
(***************************************************************************)
\* saveComments (186-201): this.comments.set(searchQueryId, storedComments),
\* where storedComments holds the comments of this call.  The id and the
\* collectedAt stamp each stored comment receives are not part of the model.
saveComments(stored, searchQueryId, list) ==
    [stored EXCEPT ![searchQueryId] = list]

\* saveSearchQuery (141-150).  The query has no entry in the comments Map
\* yet: readers take this.comments.get(id) || [], the empty list.
StoreSaveSearchQuery(query) ==
    /\ Len(searchQueries) < MaxQueries
    /\ searchQueries' = Append(searchQueries, query)
    /\ storedComments' = Append(storedComments, <<>>)
    /\ UNCHANGED <<cachedAnalytics, apiKeys, pending, lastRequest, response, requests,
                   collectorCalls>>
    /\ UNCHANGED collVars

\* A call of saveComments for a saved query; requests counts the calls.
StoreSaveComments(searchQueryId, list) ==
    /\ requests < MaxRequests
    /\ searchQueryId \in 1..Len(searchQueries)
    /\ requests' = requests + 1
    /\ lastRequest' = [route |-> "saveComments", searchQueryId |-> searchQueryId,
                       comments |-> list]
    /\ storedComments' = saveComments(storedComments, searchQueryId, list)
    /\ UNCHANGED <<searchQueries, cachedAnalytics, apiKeys, pending, response,
                   collectorCalls>>
    /\ UNCHANGED collVars

StoreNext ==
    \/ \E k \in Keywords, t \in Timeperiods, p \in RoutePlatforms :
          StoreSaveSearchQuery([keyword |-> k, timeperiod |-> t, platform |-> p])
    \/ \E q \in 1..MaxQueries, list \in CollectedLists(FALSE) \cup CollectedLists(TRUE) :
          StoreSaveComments(q, list)

SpecStore == ApiInit /\ [][StoreNext]_vars

(***************************************************************************)
(* Properties of the store and the routes                                  *)
(***************************************************************************)
\* The saved queries with the fingerprint of request r whose analytics are
\* cached.
CachedFor(r) ==
    {i \in 1..Len(searchQueries) :
        /\ searchQueries[i].keyword = r.keyword
        /\ searchQueries[i].timeperiod = r.timeperiod
        /\ searchQueries[i].platform = r.platform
        /\ i \in DOMAIN cachedAnalytics}

\* A step in which an analyze request without the refresh flag arrives while
\* analytics are cached for its fingerprint.
RepeatedRequestArrives ==
    /\ requests' = requests + 1
    /\ lastRequest'.route = "analyze"
    /\ ~lastRequest'.refresh
    /\ CachedFor(lastRequest') # {}

C2_MostRecentMatch ==
    [][RepeatedRequestArrives =>
         LET newest == CHOOSE i \in CachedFor(lastRequest') :
                           \A j \in CachedFor(lastRequest') : j <= i
         IN  response'.analytics = cachedAnalytics[newest]]_vars

\* The case of C2: two saved queries share a fingerprint and a request for
\* it was answered from the cache.
C2_TwoMatchesThenCached ==
    /\ Len(searchQueries) = 2
    /\ searchQueries[1] = searchQueries[2]
    /\ response.kind = "analytics"
    /\ response.from = "cache"

\* C9: for every stored comment set, generateAnalytics computes its output
\* only over the records that are neither metadata nor metric note: the
\* analytics cached for the set are those of the set with all such records
\* removed, and totalComments is the number of actual comments.
C9_AnalyticsOverActualComments ==
    [][Len(cachedAnalytics') > Len(cachedAnalytics) =>
         LET id == Len(cachedAnalytics')
             actual == ActualComments(storedComments'[id])
         IN  /\ \E random \in SteadyDraws :
                   cachedAnalytics'[id] = generateAnalytics(id, actual, apiKeys, random)
             /\ cachedAnalytics'[id].totalComments = Len(actual)]_vars

\* The case of C9: a stored set holds metadata or a metric note, and its
\* analytics are cached.
C9_SetWithMetadataAnalysed ==
    \E id \in 1..Len(cachedAnalytics) :
        /\ ActualComments(storedComments[id]) # storedComments[id]
        /\ ActualComments(storedComments[id]) # <<>>

\* A step in which GET /api/comments is answered.
CommentsPageAnswered ==
    requests' = requests + 1 /\ lastRequest'.route = "comments"

\* C10: for page >= 1 and pageSize >= 1, getCommentsBySearchQueryId returns
\* exactly the elements with indices (page-1)*pageSize .. page*pageSize-1 of
\* the query's actual comments in stored order; the pages of one size are
\* disjoint, their concatenation is the full list of actual comments, and no
\* metadata record or metric note is in a page.
C10_PageIsSliceOfActualComments ==
    [][CommentsPageAnswered =>
         LET r == lastRequest'
             actual == IF r.queryId \in DOMAIN storedComments
                         THEN ActualComments(storedComments[r.queryId]) ELSE <<>>
             first == (r.page - 1) * r.pageSize
             page(n) == getCommentsBySearchQueryId(storedComments, r.queryId,
                                                   n, r.pageSize)
         IN  /\ DOMAIN response'.comments =
                   {k \in 1..r.pageSize : first + k <= Len(actual)}
             /\ \A k \in DOMAIN response'.comments :
                   /\ response'.comments[k] = actual[first + k]
                   /\ ~isVideoMetadata(response'.comments[k])
                   /\ ~isCommentMetric(response'.comments[k])
             /\ Concat([n \in 1..(Len(actual) + 1) |-> page(n)]) = actual]_vars

\* The case of C10: the second page of a stored set that holds a metric
\* note was answered, and it is not empty.
C10_SecondPageAnswered ==
    /\ response.kind = "comments"
    /\ response.to.page = 2
    /\ response.comments # <<>>
    /\ response.to.queryId \in DOMAIN storedComments
    /\ \E k \in 1..Len(storedComments[response.to.queryId]) :
          isCommentMetric(storedComments[response.to.queryId][k])

\* A step in which generateAnalytics caches the analytics of a new query.
AnalyticsGenerated == Len(cachedAnalytics') > Len(cachedAnalytics)

\* The empty-state Analytics: no comments, all rates 0, every list empty.
IsEmptyState(analytics) ==
    /\ analytics.totalComments = 0
    /\ analytics.positiveSentiment = 0
    /\ analytics.negativeSentiment = 0
    /\ analytics.engagementRate = 0
    /\ analytics.sentimentTrend = <<>>
    /\ analytics.topicDistribution = <<>>
    /\ analytics.platformDistribution = <<>>
    /\ analytics.topKeywords = <<>>
    /\ analytics.influencers = <<>>

\* C11: generateAnalytics returns the empty-state Analytics (totalComments
\* 0, positive, negative and engagement rate 0, empty sentimentTrend,
\* topicDistribution, platformDistribution, topKeywords and influencers)
\* both when the query has no stored record and when every stored record is
\* a metadata or metric-note record.
C11_EmptyStateWithoutActualComments ==
    [][AnalyticsGenerated =>
         LET id == Len(cachedAnalytics')
         IN  ActualComments(storedComments'[id]) = <<>> =>
                 IsEmptyState(cachedAnalytics'[id])]_vars

\* The case of C11: analytics are cached for a stored set that is not empty
\* and holds metadata or metric-note records only.
C11_OnlyMetadataAnalysed ==
    \E id \in 1..Len(cachedAnalytics) :
        /\ storedComments[id] # <<>>
        /\ ActualComments(storedComments[id]) = <<>>

\* C12: whenever generateAnalytics answers with the empty state, aiInsights
\* is the "No API keys configured" message exactly when no platform has a
\* stored credential, and the "No data found" message exactly when at least
\* one credential is stored.
C12_EmptyStateMessageFollowsCredentials ==
    [][AnalyticsGenerated =>
         LET analytics == cachedAnalytics'[Len(cachedAnalytics')]
         IN  IsEmptyState(analytics) =>
                 /\ analytics.aiInsights.template \in {"no-api-keys", "no-data"}
                 /\ analytics.aiInsights.template = "no-api-keys" <=> apiKeys = {}
                 /\ analytics.aiInsights.template = "no-data" <=> apiKeys # {}]_vars

\* The case of C12: one query got the empty state with the first message and
\* a later one, after a credential was stored, with the second.
C12_BothMessagesGiven ==
    /\ Len(cachedAnalytics) = 2
    /\ IsEmptyState(cachedAnalytics[1])
    /\ IsEmptyState(cachedAnalytics[2])
    /\ cachedAnalytics[1].aiInsights.template = "no-api-keys"
    /\ cachedAnalytics[2].aiInsights.template = "no-data"
    /\ apiKeys # {}

(***************************************************************************)
(* generateAnalytics applied to comment sets of many shapes                *)
(***************************************************************************)
\* The comment sets: the comments of a second user and of the crowd, then
\* those of UserA on YouTube, positive ones first; all dated before the
\* window (day 0), on its first day or today.
AggregatedSets ==
    LET \* count comments of one user with one sentiment, all dated day
        Comments(userName, platform, sentiment, count, day) ==
            [i \in 1..count |->
                [StoredComment("comment", platform, userName, sentiment, <<"general">>)
                    EXCEPT !.engagementScore = 10, !.day = day]]
        \* one comment of each of the first count further users
        Crowd(count, day) ==
            [i \in 1..count |->
                [StoredComment("comment", "Facebook", FanName(i), "neutral",
                               <<"general">>)
                    EXCEPT !.day = day]]
    IN
    {Comments("Ravi  Kumar", "Twitter (X)", "negative", second, day)
       \o Crowd(crowd, day)
       \o Comments("UserA", "YouTube", "positive", positive, day)
       \o Comments("UserA", "YouTube", "neutral", neutral, day)
       \o Comments("UserA", "YouTube", "negative", negative, day) :
          positive \in 0..MaxPositive, neutral \in 0..MaxNeutral,
          negative \in 0..MaxNegative, second \in 0..MaxSecond,
          crowd \in {0, MaxCrowd}, day \in {0, 1, TrendDays}}

\* A stored comment set waits for its analytics.
AggregatorInit ==
    /\ CollectorStart
    /\ searchQueries = <<[keyword |-> "roads", timeperiod |-> 30, platform |-> "all",
                          isVideoTitleSearch |-> FALSE]>>
    /\ \E list \in AggregatedSets : storedComments = <<list>>
    /\ cachedAnalytics = <<>>
    /\ apiKeys = {}
    /\ pending = <<>>
    /\ lastRequest = NoRequest
    /\ response = NoResponse
    /\ requests = 0
    /\ collectorCalls = 0

\* storage.generateAnalytics(searchQuery.id) with the variations random.
GenerateAnalytics(random) ==
    /\ Len(cachedAnalytics) < Len(storedComments)
    /\ cachedAnalytics' =
          Append(cachedAnalytics,
                 generateAnalytics(Len(cachedAnalytics) + 1,
                                   storedComments[Len(cachedAnalytics) + 1],
                                   apiKeys, random))
    /\ UNCHANGED <<searchQueries, storedComments, apiKeys, pending, lastRequest,
                   response, requests, collectorCalls>>
    /\ UNCHANGED collVars

AggregatorNext == \E random \in RandomDraws : GenerateAnalytics(random)

SpecAggregator == AggregatorInit /\ [][AggregatorNext]_vars

(***************************************************************************)
(* Properties of the aggregator                                            *)
(***************************************************************************)
WithinRange(percentage) == percentage >= 0 /\ percentage <= 100

\* The analytics generated for comment sets that hold an actual comment.
AnalyticsOfComments ==
    {cachedAnalytics[id] : id \in {i \in 1..Len(cachedAnalytics) :
                                      ActualComments(storedComments[i]) # <<>>}}

\* C13: every percentage the aggregator produces lies in [0, 100]: the
\* positive, the negative and the implied neutral (100 - positive -
\* negative) percentage of the metrics, and the positive, neutral and
\* negative percentage of every sentimentTrend entry, on days with comments
\* and on gap-filled days.
C13_PercentagesWithinRange ==
    \A id \in 1..Len(cachedAnalytics) :
        LET analytics == cachedAnalytics[id]
        IN  /\ WithinRange(analytics.positiveSentiment)
            /\ WithinRange(analytics.negativeSentiment)
            /\ WithinRange(100 - analytics.positiveSentiment
                               - analytics.negativeSentiment)
            /\ \A k \in 1..Len(analytics.sentimentTrend) :
                  /\ WithinRange(analytics.sentimentTrend[k].positive)
                  /\ WithinRange(analytics.sentimentTrend[k].neutral)
                  /\ WithinRange(analytics.sentimentTrend[k].negative)

\* The case of C13: analytics with a 30-day trend that has a day with
\* comments and gap-filled days.
C13_TrendWithDataAndGaps ==
    \E analytics \in AnalyticsOfComments :
        /\ \E k \in 1..Len(analytics.sentimentTrend) :
              analytics.sentimentTrend[k].filled
        /\ \E k \in 1..Len(analytics.sentimentTrend) :
              ~analytics.sentimentTrend[k].filled

\* positive + neutral + negative of a trend entry
EntrySum(entry) == entry.positive + entry.neutral + entry.negative

\* C14: in the Analytics of every non-empty comment set, positive + neutral
\* + negative is exactly 100 for the metrics (neutral being the remainder
\* 100 - positive - negative) and for every sentimentTrend entry, the
\* synthesized entries of days without comments included.
C14_PercentagesSumTo100 ==
    \A analytics \in AnalyticsOfComments :
        /\ analytics.positiveSentiment
             + (100 - analytics.positiveSentiment - analytics.negativeSentiment)
             + analytics.negativeSentiment = 100
        /\ \A k \in 1..Len(analytics.sentimentTrend) :
              EntrySum(analytics.sentimentTrend[k]) = 100

\* The case of C14: the trend of a non-empty comment set has an entry of a
\* day with comments that sums to 100 and a synthesized entry.
C14_SynthesizedEntry ==
    \E analytics \in AnalyticsOfComments :
        \E k, g \in 1..Len(analytics.sentimentTrend) :
            /\ ~analytics.sentimentTrend[k].filled
            /\ EntrySum(analytics.sentimentTrend[k]) = 100
            /\ analytics.sentimentTrend[g].filled

\* C15: for every influencer entry, sentiment.positive + sentiment.neutral
\* + sentiment.negative = 100.
C15_InfluencerSentimentSumsTo100 ==
    \A id \in 1..Len(cachedAnalytics) :
        \A k \in 1..Len(cachedAnalytics[id].influencers) :
            LET influencer == cachedAnalytics[id].influencers[k]
            IN  influencer.positive + influencer.neutral + influencer.negative = 100

\* The case of C15: an influencer with comments of all three sentiments.
C15_InfluencerOfMixedSentiment ==
    \E id \in 1..Len(cachedAnalytics) :
        \E k \in 1..Len(cachedAnalytics[id].influencers) :
            LET influencer == cachedAnalytics[id].influencers[k]
            IN  /\ influencer.positive > 0
                /\ influencer.neutral > 0
                /\ influencer.negative > 0

\* The (userName, platform) pairs of a comment list and their comments.
UserKeys(list) == {<<list[i].userName, list[i].platform>> : i \in 1..Len(list)}
CommentsOf(list, key) ==
    SelectSeq(list, LAMBDA c : c.userName = key[1] /\ c.platform = key[2])

\* The handles expected of the names that occur: lower case, no whitespace.
ExpectedHandle(name) ==
    CASE name = "UserA" -> <<"u", "s", "e", "r", "a">>
      [] name = "Ravi  Kumar" -> <<"r", "a", "v", "i", "k", "u", "m", "a", "r">>
      [] OTHER -> <<"f", "a", "n">> \o digits(CHOOSE k \in 1..99 : name = FanName(k))

\* C16: findInfluencers yields one entry per distinct (userName, platform)
\* pair among the actual comments, with commentCount the size of the group,
\* engagementLevel Low for at most 5 comments, Medium for 6 to 15 and High
\* above 15, handle the lower-cased name without whitespace; the entries
\* are sorted by commentCount descending and truncated to the first 10.
\* 20 comments of UserA on YouTube, 12 positive, 5 neutral and 3 negative,
\* give commentCount 20, High and 60 / 25 / 15.
C16_InfluencersGroupedRankedTruncated ==
    \A id \in 1..Len(cachedAnalytics) :
        LET actual == ActualComments(storedComments[id])
            influencers == cachedAnalytics[id].influencers
            keyOf(k) == <<influencers[k].name, influencers[k].platform>>
            listed == {keyOf(k) : k \in 1..Len(influencers)}
        IN  /\ Len(influencers) = Min(Cardinality(UserKeys(actual)), 10)
            /\ listed \subseteq UserKeys(actual)
            /\ Cardinality(listed) = Len(influencers)
            /\ \A k \in 1..Len(influencers) :
                  LET own == CommentsOf(actual, keyOf(k))
                      groupSize == influencers[k].value
                  IN  /\ groupSize = Len(own)
                      /\ influencers[k].engagementLevel =
                            (CASE groupSize <= 5 -> "Low"
                               [] groupSize \in 6..15 -> "Medium"
                               [] OTHER -> "High")
                      /\ influencers[k].handle = ExpectedHandle(influencers[k].name)
                      /\ \A j \in 1..Len(influencers) :
                            k < j => groupSize >= influencers[j].value
                      /\ \A key \in UserKeys(actual) \ listed :
                            Len(CommentsOf(actual, key)) <= groupSize
                      /\ (/\ SentimentCount(own, "positive") = 12
                          /\ SentimentCount(own, "neutral") = 5
                          /\ SentimentCount(own, "negative") = 3)
                           => /\ groupSize = 20
                              /\ influencers[k].engagementLevel = "High"
                              /\ influencers[k].positive = 60
                              /\ influencers[k].neutral = 25
                              /\ influencers[k].negative = 15

\* The case of C16: eleven users commented, one of them 20 times (12
\* positive, 5 neutral, 3 negative), another 6 times, the others once; ten
\* are listed: a High one, a Medium one, then Low ones.
C16_ElevenUsersTenListed ==
    /\ Len(cachedAnalytics) = 1
    /\ Cardinality(UserKeys(storedComments[1])) = 11
    /\ Len(cachedAnalytics[1].influencers) = 10
    /\ cachedAnalytics[1].influencers[1].value = 20
    /\ cachedAnalytics[1].influencers[1].positive = 60
    /\ cachedAnalytics[1].influencers[1].engagementLevel = "High"
    /\ cachedAnalytics[1].influencers[2].engagementLevel = "Medium"
    /\ cachedAnalytics[1].influencers[3].engagementLevel = "Low"

(***************************************************************************)
(* SentimentAnalyzer (sentimentAnalyzer.ts).  A text is a sequence of       *)
(* characters; a Telugu character is written as its code point.            *)
(***************************************************************************)
\* \s of the regular expressions
isWhitespace(ch) == ch \in {" ", "\t", "\n"}

\* String.prototype.includes
includes(text, pattern) ==
    \E i \in 1..(Len(text) - Len(pattern) + 1) :
        \A k \in 1..Len(pattern) : text[i + k - 1] = pattern[k]

\* String.prototype.split(/\s+/): the pieces between runs of whitespace; a
\* text that starts or ends with whitespace has an empty first or last piece.
RECURSIVE splitFrom(_, _, _)
splitFrom(text, i, word) ==
    IF i > Len(text) THEN <<word>>
    ELSE IF isWhitespace(text[i])
           THEN IF i > 1 /\ isWhitespace(text[i - 1])
                  THEN splitFrom(text, i + 1, word)
                  ELSE <<word>> \o splitFrom(text, i + 1, <<>>)
           ELSE splitFrom(text, i + 1, Append(word, text[i]))

split(text) == splitFrom(text, 1, <<>>)

\* analyzeEmojiPatterns (lines 232-262): the result, with the sentiment
\* "null" for null.  Scores are in tenths.
analyzeEmojiPatterns(text) ==
    LET \* \p{Emoji}: the characters with the Unicode property Emoji that
        \* the texts use; the digits, # and * have the property
        isEmoji(ch) ==
            ch \in {"0", "1", "2", "3", "4", "5", "6", "7", "8", "9", "#", "*",
                    "U+2764", "U+1F44D", "U+1F600"}
        heartEmojis == SelectSeq(text, LAMBDA ch : ch = "U+2764")
        positiveEmojis == SelectSeq(text, LAMBDA ch : ch = "U+1F44D")
        solid == SelectSeq(text, LAMBDA ch : ~isWhitespace(ch))
        multipleEmojiPattern ==
            \E i \in 1..(Len(solid) - 2) : \A k \in 0..2 : isEmoji(solid[i + k])
        repeatedEmojiPattern ==
            \E i \in 1..(Len(text) - 2) :
                isEmoji(text[i]) /\ text[i + 1] = text[i] /\ text[i + 2] = text[i]
    IN  IF Len(heartEmojis) >= 1
          THEN [sentiment |-> "positive", score |-> 80 + 10 * Min(Len(heartEmojis), 5)]
        ELSE IF Len(positiveEmojis) >= 1
          THEN [sentiment |-> "positive", score |-> 70 + 10 * Min(Len(positiveEmojis), 5)]
        ELSE IF multipleEmojiPattern THEN [sentiment |-> "positive", score |-> 85]
        ELSE IF repeatedEmojiPattern THEN [sentiment |-> "positive", score |-> 80]
        ELSE [sentiment |-> "null", score |-> 0]

\* analyzeTeluguPraisePhrases (267-304), for the patterns in Latin script;
\* the patterns in Telugu script need characters the texts do not use.
analyzeTeluguPraisePhrases(text) ==
    LET normalizedText == toLowerCase(text)
        has(pattern) == includes(normalizedText, pattern)
        name == has(<<"s", "u", "r", "e", "s", "h">>)
                  \/ has(<<"k", "a", "k", "a", "r", "l", "a">>)
        startsWith(pattern) ==
            /\ Len(pattern) <= Len(normalizedText)
            /\ SubSeq(normalizedText, 1, Len(pattern)) = pattern
    IN  IF has(<<"j", "a", "i">>) /\ name
          THEN [sentiment |-> "positive", score |-> 95]
        ELSE IF (has(<<"a", "n", "n", "a">>) \/ has(<<"g", "a", "r", "u">>)) /\ name
          THEN [sentiment |-> "positive", score |-> 85]
        ELSE IF startsWith(<<"s", "u", "p", "e", "r">>)
                  \/ startsWith(<<"h", "a", "t", "s", "o", "f", "f">>)
          THEN [sentiment |-> "positive", score |-> 80]
        ELSE [sentiment |-> "null", score |-> 0]

\* analyzeTeluguPoliticalSentiment (310-358): only for a text with a Telugu
\* character; of its patterns the first can match Latin-script words.
analyzeTeluguPoliticalSentiment(text) ==
    LET containsTelugu ==
            \E i \in 1..Len(text) :
                text[i] \in {"U+0C28", "U+0C40", "U+0C30", "U+0C41"}
    IN  IF /\ containsTelugu
           /\ includes(text, <<"c", "o", "n", "g", "r", "e", "s", "s">>)
           /\ includes(text, <<"s", "u", "r", "e", "s", "h">>)
           /\ includes(text, <<"j", "a", "y", "a", "h", "o">>)
          THEN [sentiment |-> "positive", score |-> 85]
          ELSE [sentiment |-> "null", score |-> 0]

\* The loop over the words (lines 164-198), from word i (counted from 1) on.
\* The scores and the context modifier are in units of 1 / unit, so that
\* the factors 1.5 stay whole.
RECURSIVE scoreWords(_, _, _, _, _, _)
scoreWords(words, i, unit, positiveScore, negativeScore, contextModifier) ==
    IF i > Len(words)
      THEN [positiveScore |-> positiveScore, negativeScore |-> negativeScore]
    ELSE LET \* the entries of the four word lists (lines 79-147) that are
             \* made of the characters the texts use
             positiveWords ==
                 {<<"g", "o", "o", "d">>, <<"g", "r", "e", "a", "t">>,
                  <<"t", "h", "a", "n", "k">>, <<"t", "h", "a", "n", "k", "s">>,
                  <<"w", "e", "l", "l">>, <<"b", "e", "s", "t">>, <<"l", "o", "v", "e">>,
                  <<"s", "u", "p", "e", "r">>, <<"j", "a", "i">>, <<"a", "n", "n", "a">>,
                  <<"g", "a", "r", "u">>, <<"s", "i", "r">>}
             negativeWords ==
                 {<<"b", "a", "d">>, <<"p", "o", "o", "r">>, <<"s", "a", "d">>,
                  <<"h", "a", "t", "e">>, <<"w", "o", "r", "s", "t">>,
                  <<"p", "r", "o", "b", "l", "e", "m">>, <<"i", "s", "s", "u", "e">>}
             negationWords == {<<"n", "o">>, <<"n", "o", "t">>, <<"n", "e", "v", "e", "r">>}
             intensifiers == {<<"v", "e", "r", "y">>, <<"r", "e", "a", "l", "l", "y">>}
             word == words[i]
             abs == IF contextModifier < 0 THEN -contextModifier ELSE contextModifier
         IN  IF word \in negationWords
               THEN scoreWords(words, i + 1, unit, positiveScore, negativeScore, -unit)
             ELSE IF word \in intensifiers
               THEN scoreWords(words, i + 1, unit, positiveScore, negativeScore,
                               (contextModifier * 3) \div 2)
             ELSE IF \E pw \in positiveWords : includes(word, pw)
               THEN scoreWords(words, i + 1, unit, positiveScore + contextModifier,
                               negativeScore, unit)
             ELSE IF \E nw \in negativeWords : includes(word, nw)
               THEN scoreWords(words, i + 1, unit, positiveScore,
                               negativeScore + abs, unit)
             ELSE scoreWords(words, i + 1, unit, positiveScore, negativeScore,
                             IF (i - 1) % 5 = 0 THEN unit ELSE contextModifier)

\* aiEnhancedAnalysis (lines 62-226)
aiEnhancedAnalysis(text) ==
    LET normalizedText == toLowerCase(text)
        words == split(normalizedText)
        unit == Pow2(Len(words))
        scores == scoreWords(words, 1, unit, 0, 0, unit)
        positiveScore ==
            scores.positiveScore
              + (IF includes(normalizedText, <<"t", "h", "a", "n", "k", " ", "y", "o", "u">>)
                    \/ includes(normalizedText,
                                <<"t", "h", "a", "n", "k", "s", " ", "f", "o", "r">>)
                   THEN 2 * unit ELSE 0)
        negativeScore ==
            scores.negativeScore
              + (IF includes(normalizedText, <<"w", "a", "s", "t", "e", " ", "o", "f">>)
                    \/ includes(normalizedText,
                                <<"n", "o", "t", " ", "w", "o", "r", "t", "h">>)
                   THEN 2 * unit ELSE 0)
        finalPositive == IF positiveScore < 0 THEN 0 ELSE positiveScore
        finalNegative == IF negativeScore < 0 THEN 0 ELSE negativeScore
        confidence(final) ==
            (1000 * final) \div (10 * (finalPositive + finalNegative) + unit)
    IN  IF analyzeEmojiPatterns(text).sentiment # "null" THEN analyzeEmojiPatterns(text)
        ELSE IF analyzeTeluguPraisePhrases(text).sentiment # "null"
          THEN analyzeTeluguPraisePhrases(text)
        ELSE IF analyzeTeluguPoliticalSentiment(text).sentiment # "null"
          THEN analyzeTeluguPoliticalSentiment(text)
        ELSE IF finalPositive > finalNegative /\ finalPositive > 0
          THEN [sentiment |-> "positive", score |-> confidence(finalPositive)]
        ELSE IF finalNegative > finalPositive /\ finalNegative > 0
          THEN [sentiment |-> "negative", score |-> confidence(finalNegative)]
        ELSE [sentiment |-> "neutral", score |-> 10]

\* analyze (lines 12-29).  containsNeutralName (34-38): the text holds the
\* neutral name.  textContainsOnlyName (44-56): the text without . , ! ? ' "
\* and without surrounding whitespace is the name, alone or after "the",
\* "mr" or "sri".
analyze(text) ==
    LET kept == SelectSeq(toLowerCase(text),
                          LAMBDA ch : ch \notin {".", ",", "!", "?", "'", "\""})
        first == IF \E i \in 1..Len(kept) : ~isWhitespace(kept[i])
                   THEN CHOOSE i \in 1..Len(kept) :
                            /\ ~isWhitespace(kept[i])
                            /\ \A j \in 1..(i - 1) : isWhitespace(kept[j])
                   ELSE 1
        last == IF \E i \in 1..Len(kept) : ~isWhitespace(kept[i])
                  THEN CHOOSE i \in 1..Len(kept) :
                           /\ ~isWhitespace(kept[i])
                           /\ \A j \in (i + 1)..Len(kept) : isWhitespace(kept[j])
                  ELSE 0
        cleanText == SubSeq(kept, first, last)
        nameLower == <<"v", ".", "p", "r", "a", "s", "a", "d">>
        textContainsOnlyName ==
            cleanText \in {nameLower,
                           <<"t", "h", "e", " ">> \o nameLower,
                           <<"m", "r", " ">> \o nameLower,
                           <<"s", "r", "i", " ">> \o nameLower}
    IN  IF includes(toLowerCase(text), nameLower) /\ textContainsOnlyName
          THEN [sentiment |-> "neutral", score |-> 0]
          ELSE aiEnhancedAnalysis(text)

\* analyzeBatch (lines 367-389): every record is analysed again, whatever
\* sentiment it carries.
analyzeBatch(list) ==
    [i \in 1..Len(list) |-> [list[i] EXCEPT !.sentiment = analyze(list[i].text).sentiment]]

(***************************************************************************)
(* TopicExtractor (topicExtractor.ts)                                      *)
(***************************************************************************)
\* topicKeywords (lines 50-66) in the order of the object's keys: the
\* categories and those of their keywords the texts can contain.  The
\* Telugu word for water is U+0C28 U+0C40 U+0C30 U+0C41.
topicKeywords ==
    <<[topic |-> <<"i", "n", "f", "r", "a", "s", "t", "r", "u", "c", "t", "u", "r", "e">>,
       keywords |-> {<<"r", "o", "a", "d">>, <<"r", "o", "a", "d", "s">>}],
      [topic |-> <<"w", "a", "t", "e", "r", " ", "i", "s", "s", "u", "e", "s">>,
       keywords |-> {<<"w", "a", "t", "e", "r">>, <<"d", "a", "m">>}],
      [topic |-> <<"e", "m", "p", "l", "o", "y", "m", "e", "n", "t">>,
       keywords |-> {<<"j", "o", "b">>, <<"w", "o", "r", "k">>}],
      [topic |-> <<"U+0C28", "U+0C40", "U+0C30", "U+0C41", " ",
                   "(", "w", "a", "t", "e", "r", ")">>,
       keywords |-> {<<"U+0C28", "U+0C40", "U+0C30", "U+0C41">>,
                     <<"U+0C28", "U+0C40", "U+0C1F", "U+0C3F">>}]>>

\* topic.includes("(") ? topic.substring(0, topic.indexOf("(")).trim() : topic
\* (lines 77-79)
cleanTopic(topic) ==
    IF \E i \in 1..Len(topic) : topic[i] = "("
      THEN LET indexOf == CHOOSE i \in 1..Len(topic) :
                              /\ topic[i] = "("
                              /\ \A j \in 1..(i - 1) : topic[j] # "("
               before == SubSeq(topic, 1, indexOf - 1)
               solid == {i \in 1..Len(before) : ~isWhitespace(before[i])}
           IN  IF solid = {} THEN <<>>
               ELSE SubSeq(before,
                           CHOOSE i \in solid : \A j \in solid : i <= j,
                           CHOOSE i \in solid : \A j \in solid : j <= i)
      ELSE topic

\* extractedTopics.add(t): a Set keeps the order of first insertion.
add(extractedTopics, t) ==
    IF \E i \in 1..Len(extractedTopics) : extractedTopics[i] = t
      THEN extractedTopics ELSE Append(extractedTopics, t)

\* The loop over the categories (lines 73-84), from category i on.
RECURSIVE matchTopics(_, _, _)
matchTopics(normalizedText, i, extractedTopics) ==
    IF i > Len(topicKeywords) THEN extractedTopics
    ELSE matchTopics(normalizedText, i + 1,
             IF \E keyword \in topicKeywords[i].keywords :
                    includes(normalizedText, toLowerCase(keyword))
               THEN add(extractedTopics, cleanTopic(topicKeywords[i].topic))
               ELSE extractedTopics)

\* The matched categories without the fallback tag: not what the code does.
extractTopicsWithoutFallback(text, sentiment) ==
    matchTopics(toLowerCase(text), 1, <<>>)

\* extractTopicsFromText (lines 41-109)
extractTopicsFromText(text, sentiment) ==
    LET normalizedText == toLowerCase(text)
        matched == matchTopics(normalizedText, 1, <<>>)
        appreciation == <<"a", "p", "p", "r", "e", "c", "i", "a", "t", "i", "o", "n">>
        withSentiment ==
            IF /\ sentiment = "positive"
               /\ \/ includes(normalizedText, <<"t", "h", "a", "n", "k">>)
                  \/ includes(normalizedText, appreciation)
              THEN add(matched, appreciation)
            ELSE IF /\ sentiment = "negative"
                    /\ \/ includes(normalizedText, <<"p", "r", "o", "b", "l", "e", "m">>)
                       \/ includes(normalizedText, <<"i", "s", "s", "u", "e">>)
                       \/ includes(normalizedText,
                                   <<"c", "o", "m", "p", "l", "a", "i", "n", "t">>)
              THEN add(matched, <<"c", "o", "m", "p", "l", "a", "i", "n", "t", "s">>)
            ELSE matched
    IN  IF Len(withSentiment) = 0 THEN <<<<"g", "e", "n", "e", "r", "a", "l">>>>
        ELSE withSentiment

\* A tagger that extracts again and appends to the topics a comment
\* carries: not what the code does.
extractTopicsAppending(list) ==
    [i \in 1..Len(list) |->
        [list[i] EXCEPT
            !.topics = @ \o extractTopicsFromText(list[i].text, list[i].sentiment)]]

\* extractTopics (lines 9-32)
extractTopics(list) ==
    [i \in 1..Len(list) |->
        IF Len(list[i].topics) > 0 THEN list[i]
        ELSE [list[i] EXCEPT
                !.topics = extractTopicsFromText(list[i].text, list[i].sentiment)]]

(***************************************************************************)
(* The pipeline of an analyze request: collectComments, analyzeBatch,      *)
(* extractTopics, saveComments, generateAnalytics (routes.ts 750-765)      *)
(***************************************************************************)
\* The words of a sequence joined by single spaces.
RECURSIVE Join(_)
Join(words) ==
    IF words = <<>> THEN <<>>
    ELSE IF Len(words) = 1 THEN words[1]
    ELSE words[1] \o <<" ">> \o Join(Tail(words))

\* "Thank you very much", "this is bad and a waste of money", "ok, fine"
ExampleTexts ==
    <<Join(<<<<"T", "h", "a", "n", "k">>, <<"y", "o", "u">>, <<"v", "e", "r", "y">>,
             <<"m", "u", "c", "h">>>>),
      Join(<<<<"t", "h", "i", "s">>, <<"i", "s">>, <<"b", "a", "d">>, <<"a", "n", "d">>,
             <<"a">>, <<"w", "a", "s", "t", "e">>, <<"o", "f">>,
             <<"m", "o", "n", "e", "y">>>>),
      Join(<<<<"o", "k", ",">>, <<"f", "i", "n", "e">>>>)>>

\* The comment texts: the empty text, the texts of up to MaxWords words of
\* the vocabulary (thank, you, not, very, good, bad, waste, of, fine, roads,
\* 2019, problem and the Telugu word for water), and the three examples.
Texts ==
    LET Vocabulary ==
            {<<"t", "h", "a", "n", "k">>, <<"y", "o", "u">>, <<"n", "o", "t">>,
             <<"v", "e", "r", "y">>, <<"g", "o", "o", "d">>, <<"b", "a", "d">>,
             <<"w", "a", "s", "t", "e">>, <<"o", "f">>, <<"f", "i", "n", "e">>,
             <<"r", "o", "a", "d", "s">>, <<"2", "0", "1", "9">>,
             <<"p", "r", "o", "b", "l", "e", "m">>,
             <<"U+0C28", "U+0C40", "U+0C30", "U+0C41">>}
    IN
    {Join(words) : words \in UNION {[1..n -> Vocabulary] : n \in 0..MaxWords}}
      \cup {ExampleTexts[i] : i \in 1..Len(ExampleTexts)}

\* A record as a fetchFrom* method returns it.
RawComment(kind, userName, text, sentiment, topics) ==
    [kind |-> kind, platform |-> "YouTube", userName |-> userName,
     sentiment |-> sentiment, topics |-> topics, engagementScore |-> 0,
     day |-> TrendDays, text |-> text]

\* The lists collectComments returns: one fetched comment with the
\* placeholders "neutral" and [] (1335-1336), one generated comment with
\* the sentiment and the topics of its template (2028-2029, 2085-2086),
\* these after the metadata record, and the three examples together.
CollectedBatches ==
    LET \* the metadata record of a title search (1275-1296): its text is
        \* a JSON object with the view, like and comment counts
        RawMetadata ==
            RawComment("metadata", "VIDEO_METADATA",
                       <<"{", "v", "i", "e", "w", "s", ":", "1", "2", "0", "}">>,
                       "neutral",
                       <<<<"v", "i", "d", "e", "o", "_", "m", "e", "t", "a", "d", "a",
                           "t", "a">>>>)
        fetched == {RawComment("comment", "asha", text, "neutral", <<>>) : text \in Texts}
        generated ==
            {RawComment("comment", "ravi", text, sentiment,
                        <<<<"w", "a", "t", "e", "r", " ", "i", "s", "s", "u", "e", "s">>,
                          <<"c", "o", "m", "p", "l", "a", "i", "n", "t", "s">>>>) :
                text \in Texts, sentiment \in {"positive", "negative", "neutral"}}
    IN  {<<c>> : c \in fetched \cup generated}
          \cup {<<RawMetadata, c>> : c \in fetched}
          \cup {[i \in 1..Len(ExampleTexts) |->
                    RawComment("comment", "asha", ExampleTexts[i], "neutral", <<>>)]}

\* collectComments has returned a list.
PipelineInit ==
    /\ cpc = "collected"
    /\ result \in CollectedBatches
    /\ request = [platform |-> "all", isVideoTitleSearch |-> FALSE]
    /\ apiKey = FALSE
    /\ platforms = <<>>
    /\ platIdx = 1
    /\ allComments = <<>>
    /\ comments = <<>>
    /\ videoIds = <<>>
    /\ videoId = 0
    /\ commentCount = 0
    /\ nextPageToken = 0
    /\ localNextPageToken = 0
    /\ localTotalFetched = 0
    /\ totalCommentsFetched = 0
    /\ retryCount = 0
    /\ failedAttempts = 0
    /\ commentType = 1
    /\ posts = <<>>
    /\ lastDelay = 0
    /\ outcomes = <<>>
    /\ reported = [v \in 1..MaxVideos |-> 0]
    /\ failuresLeft = MaxFailures
    /\ pagesLeft = MaxPageResponses
    /\ ApiStart

\* The collector variables the pipeline leaves alone.
pipelineFrame ==
    <<request, apiKey, platforms, platIdx, allComments, comments, videoIds, videoId,
      commentCount, nextPageToken, localNextPageToken, localTotalFetched,
      totalCommentsFetched, retryCount, failedAttempts, commentType, posts, lastDelay,
      outcomes, reported, failuresLeft, pagesLeft>>

\* const analyzedComments = await sentimentAnalyzer.analyzeBatch(comments)
AnalyzeBatch ==
    /\ cpc = "collected"
    /\ cpc' = "analyzed"
    /\ result' = analyzeBatch(result)
    /\ UNCHANGED <<apiVars, pipelineFrame>>

\* const commentTopics = await topicExtractor.extractTopics(analyzedComments)
ExtractTopics ==
    /\ cpc = "analyzed"
    /\ cpc' = "tagged"
    /\ result' = extractTopics(result)
    /\ UNCHANGED <<apiVars, pipelineFrame>>

\* saveSearchQuery and saveComments, for a request with this timeperiod
SaveComments(timeperiod) ==
    /\ cpc = "tagged"
    /\ cpc' = "saved"
    /\ searchQueries' = Append(searchQueries,
                               [keyword |-> "roads", timeperiod |-> timeperiod,
                                platform |-> "all", isVideoTitleSearch |-> FALSE])
    /\ storedComments' = Append(storedComments, result)
    /\ UNCHANGED <<result, cachedAnalytics, apiKeys, pending, lastRequest, response,
                   requests, collectorCalls, pipelineFrame>>

PipelineNext ==
    \/ AnalyzeBatch
    \/ ExtractTopics
    \/ \E timeperiod \in {7, 30} : SaveComments(timeperiod)
    \/ \E random \in SteadyDraws : GenerateAnalytics(random)

SpecPipeline == PipelineInit /\ [][PipelineNext]_vars

(***************************************************************************)
(* Properties of the pipeline                                              *)
(***************************************************************************)
\* C17: after the pipeline (collect, analyzeBatch, extractTopics,
\* saveComments) every stored comment of every query has a sentiment in
\* {positive, negative, neutral} and a topic list of size >= 1, whatever
\* placeholder values the collector produced.
C17_StoredCommentsLabelled ==
    \A id \in 1..Len(storedComments) :
        \A k \in 1..Len(storedComments[id]) :
            /\ storedComments[id][k].sentiment \in {"positive", "negative", "neutral"}
            /\ Len(storedComments[id][k].topics) >= 1

\* The case of C17: a comment collected with the placeholders is stored
\* with the fallback tag "general" as its only topic.
C17_FallbackTagStored ==
    /\ cpc = "saved"
    /\ \E k \in 1..Len(storedComments[1]) :
          /\ storedComments[1][k].kind = "comment"
          /\ storedComments[1][k].userName = "asha"
          /\ storedComments[1][k].text # <<>>
          /\ storedComments[1][k].topics = <<<<"g", "e", "n", "e", "r", "a", "l">>>>

\* C18: extractTopics is idempotent: applied to its own output it returns
\* every comment with the same topic list, and a comment that already
\* carries a non-empty topic list is passed through unchanged.
C18_ExtractTopicsIdempotent ==
    [][cpc = "analyzed" /\ cpc' = "tagged" =>
         /\ extractTopics(result') = result'
         /\ \A i \in 1..Len(result) :
               Len(result[i].topics) > 0 => result'[i] = result[i]]_vars

\* The case of C18: the tagger has run on a list with a comment that
\* carried topics and on one with a comment that carried none.
C18_TaggedWithAndWithoutTopics ==
    /\ cpc = "tagged"
    /\ \E i \in 1..Len(result) : result[i].userName = "asha" /\ Len(result[i].topics) >= 2
    /\ \E i \in 1..Len(result) : result[i].userName = "VIDEO_METADATA"

\* The Telugu word for water, a keyword of the category labelled with it.
TeluguWater == <<"U+0C28", "U+0C40", "U+0C30", "U+0C41">>

\* C19: when a text matches a keyword of a Telugu-labelled topic category,
\* the tag the tagger emits is the English category name (the water
\* category), not the Telugu label.
C19_TeluguCategoryTaggedInEnglish ==
    [][cpc = "analyzed" /\ cpc' = "tagged" =>
         \A i \in 1..Len(result) :
             (Len(result[i].topics) = 0 /\ includes(result[i].text, TeluguWater)) =>
                 /\ \A k \in 1..Len(result'[i].topics) :
                       result'[i].topics[k] # TeluguWater
                 /\ \E k \in 1..Len(result'[i].topics) :
                       result'[i].topics[k] \in
                           {<<"w", "a", "t", "e", "r">>,
                            <<"w", "a", "t", "e", "r", " ", "i", "s", "s", "u", "e", "s">>}]_vars

\* The case of C19: a comment with the Telugu word for water was tagged.
C19_TeluguTextTagged ==
    /\ cpc = "tagged"
    /\ \E i \in 1..Len(result) :
          /\ result[i].userName = "asha"
          /\ includes(result[i].text, TeluguWater)

\* The sentiment evidence of a text: a word with a positive lexicon entry
\* or the phrase "thank you"; a word with a negative lexicon entry or the
\* phrase "waste of"; a negation word.
PositiveEvidence(text) ==
    \/ includes(toLowerCase(text), <<"t", "h", "a", "n", "k">>)
    \/ includes(toLowerCase(text), <<"g", "o", "o", "d">>)

NegativeEvidence(text) ==
    \/ includes(toLowerCase(text), <<"b", "a", "d">>)
    \/ includes(toLowerCase(text), <<"p", "r", "o", "b", "l", "e", "m">>)
    \/ includes(toLowerCase(text), <<"w", "a", "s", "t", "e", " ", "o", "f">>)

Negated(text) == \E i \in 1..Len(split(text)) : split(text)[i] = <<"n", "o", "t">>

\* C20: the classifier assigns positive to a text whose only sentiment
\* evidence is a positive lexicon hit or the phrase "thank you", negative to
\* a text whose only evidence is negative lexicon hits or "waste of", and
\* neutral to a text without a lexicon hit; the comments "Thank you very
\* much", "this is bad and a waste of money" and "ok, fine" are classified
\* positive, negative, neutral and their analytics have totalComments = 3.
C20_ClassifiedByEvidence ==
    /\ cpc \in {"analyzed", "tagged", "saved"} =>
          \A i \in 1..Len(result) :
              LET text == result[i].text
              IN  (result[i].kind = "comment" /\ ~Negated(text)) =>
                      result[i].sentiment =
                          (CASE PositiveEvidence(text) /\ ~NegativeEvidence(text) -> "positive"
                             [] NegativeEvidence(text) /\ ~PositiveEvidence(text) -> "negative"
                             [] ~PositiveEvidence(text) /\ ~NegativeEvidence(text) -> "neutral"
                             [] OTHER -> result[i].sentiment)
    /\ (cpc = "saved" /\ Len(result) = 3 /\ Len(cachedAnalytics) = 1) =>
          /\ [i \in 1..3 |-> result[i].sentiment] = <<"positive", "negative", "neutral">>
          /\ cachedAnalytics[1].totalComments = 3

\* The case of C20: the three example comments were analysed, stored and
\* aggregated.
C20_ExamplesAggregated ==
    /\ cpc = "saved"
    /\ Len(cachedAnalytics) = 1
    /\ [i \in 1..Len(result) |-> result[i].text] = ExampleTexts

\* C21: analyze always returns a result, a sentiment of the three with a
\* score, and for the empty text the result is neutral with score 0.
C21_AnalyzeEmptyTextNeutralZero ==
    [][cpc = "collected" /\ cpc' = "analyzed" =>
         \A i \in 1..Len(result) :
             LET analysis == analyze(result[i].text)
             IN  /\ analysis.sentiment \in {"positive", "negative", "neutral"}
                 /\ analysis.score >= 0
                 /\ result'[i].sentiment = analysis.sentiment
                 /\ result[i].text = <<>> =>
                        analysis = [sentiment |-> "neutral", score |-> 0]]_vars

\* The case of C21: a comment with the empty text was analysed.
C21_EmptyTextAnalysed ==
    /\ cpc = "analyzed"
    /\ \E i \in 1..Len(result) : result[i].kind = "comment" /\ result[i].text = <<>>

\* C23: generateAIInsights returns the positive-framing template (the top
\* topic, the fixed "12% increase", the engagement rate) exactly when the
\* positive percentage is greater than the negative one, and the
\* negative-framing template (the negative percentage, the top topic, the
\* engagement rate) only when the negative percentage is greater than the
\* positive one.
C23_InsightsFollowDominantSentiment ==
    \A analytics \in AnalyticsOfComments :
        LET insights == analytics.aiInsights
        IN  /\ insights.template \in {"positive", "negative"}
            /\ insights.template = "positive" <=>
                   analytics.positiveSentiment > analytics.negativeSentiment
            /\ insights.template = "positive" =>
                   insights = [template |-> "positive",
                               topTopic |-> analytics.topicDistribution[1].name,
                               increase |-> 12,
                               engagementRate |-> analytics.engagementRate]
            /\ insights.template = "negative" =>
                   /\ analytics.negativeSentiment > analytics.positiveSentiment
                   /\ insights.negativeSentiment = analytics.negativeSentiment
                   /\ insights.topTopic = analytics.topicDistribution[1].name
                   /\ insights.engagementRate = analytics.engagementRate

\* The case of C23: insights were generated for comments among which the
\* negative ones dominate.
C23_NegativeFramingGenerated ==
    \E analytics \in AnalyticsOfComments :
        /\ analytics.aiInsights.template = "negative"
        /\ analytics.negativeSentiment > analytics.positiveSentiment
        /\ analytics.positiveSentiment > 0

\* C22: saveComments appends: a call saveComments(q, B) leaves the comment
\* set of query q holding the comments it held, those of an earlier call
\* saveComments(q, A), followed by all comments of B, and leaves the comment
\* sets of the other queries unchanged.
C22_SaveCommentsAppends ==
    [][(requests' = requests + 1 /\ lastRequest'.route = "saveComments") =>
         LET q == lastRequest'.searchQueryId
         IN  /\ storedComments'[q] = storedComments[q] \o lastRequest'.comments
             /\ \A other \in 1..Len(storedComments) :
                   other # q => storedComments'[other] = storedComments[other]]_vars

\* The case of C22: saveComments was called twice for the only query, the
\* second time with comments, while a second query holds its own comments.
C22_SavedTwiceForOneQuery ==
    /\ requests = 3
    /\ Len(searchQueries) = 2
    /\ lastRequest.route = "saveComments"
    /\ lastRequest.searchQueryId = 1
    /\ lastRequest.comments # <<>>
    /\ storedComments[2] # <<>>
    /\ storedComments[2] # storedComments[1]

\* C24: for a non-empty actual comment set, sentimentTrend has exactly one
\* entry per calendar day of the lookback window of the query's time period,
\* in ascending order of date with no day missing and ending today, and
\* every actual comment created within that window is counted in the entry
\* of its day.
C24_TrendCoversLookbackWindow ==
    \A id \in 1..Len(cachedAnalytics) :
        LET actual == ActualComments(storedComments[id])
            window == searchQueries[id].timeperiod
            trend == cachedAnalytics[id].sentimentTrend
        IN  actual # <<>> =>
                /\ Len(trend) = window
                /\ \A k \in 1..Len(trend) : trend[k].date = TrendDays - window + k
                /\ \A i \in 1..Len(actual) :
                      actual[i].day > TrendDays - window =>
                          \E k \in 1..Len(trend) :
                              LET dayData == SelectSeq(actual,
                                                 LAMBDA c : c.day = actual[i].day)
                              IN  /\ trend[k].date = actual[i].day
                                  /\ ~trend[k].filled
                                  /\ trend[k].positive =
                                         Percentage(SentimentCount(dayData, "positive"),
                                                    Len(dayData))
                                  /\ trend[k].negative =
                                         Percentage(SentimentCount(dayData, "negative"),
                                                    Len(dayData))

\* The case of C24: a trend was generated for comments of a query with a
\* time period of 7 days.
C24_TrendOfSevenDayQuery ==
    /\ cpc = "saved"
    /\ Len(cachedAnalytics) = 1
    /\ searchQueries[1].timeperiod = 7
    /\ ActualComments(storedComments[1]) # <<>>
    /\ cachedAnalytics[1].sentimentTrend # <<>>

\* Two requests ask for the same (keyword, timeperiod, platform).
SameFingerprint(a, b) ==
    a.keyword = b.keyword /\ a.timeperiod = b.timeperiod /\ a.platform = b.platform

\* C25: under any interleaving of concurrent analyze requests without the
\* refresh flag, at most one SearchQuery record and one collector run are
\* created per (keyword, timeperiod, platform): a request without the flag
\* starts no collector run while a run of such a request for its fingerprint
\* is under way or a record for it exists, and creates no record when one
\* exists; a second record appears only through an explicit refresh.
C25_OneQueryPerFingerprint ==
    [][/\ collectorCalls' > collectorCalls =>
            \/ lastRequest'.refresh
            \/ /\ \A id \in 1..Len(searchQueries) :
                     ~SameFingerprint(searchQueries[id], lastRequest')
               /\ \A i \in 1..Len(pending) :
                     SameFingerprint(pending[i], lastRequest') => pending[i].refresh
       /\ Len(searchQueries') > Len(searchQueries) =>
            \/ response'.to.refresh
            \/ \A id \in 1..Len(searchQueries) :
                  ~SameFingerprint(searchQueries[id], response'.to)]_vars

\* The case of C25: two requests for one fingerprint were under way
\* together, both were answered by the collector, and the one answered last
\* had no refresh flag.
C25_ConcurrentRequestsAnswered ==
    /\ pending = <<>>
    /\ Len(searchQueries) = 2
    /\ SameFingerprint(searchQueries[1], searchQueries[2])
    /\ response.kind = "analytics"
    /\ response.from = "collector"
    /\ ~response.to.refresh
    /\ requests = 2

\* The actual comments of a query that lie beyond the page of this number
\* and size.
CommentsBeyond(searchQueryId, page, pageSize) ==
    IF searchQueryId \in 1..Len(storedComments)
      THEN Len(ActualComments(storedComments[searchQueryId])) > page * pageSize
      ELSE FALSE

\* The flag of the response is true exactly when comments lie beyond its
\* page.
HasMoreIsExact ==
    /\ (response.kind = "analytics" /\ response.from = "cache") =>
           (response.hasMoreComments <=>
                CommentsBeyond(response.analytics.searchQueryId, response.to.page,
                               AnalyzePageSize))
    /\ (response.kind = "analytics" /\ response.from = "collector") =>
           (response.hasMoreComments <=>
                CommentsBeyond(response.analytics.searchQueryId, 1, AnalyzePageSize))
    /\ response.kind = "comments" =>
           (response.hasMore <=>
                CommentsBeyond(response.to.queryId, response.to.page,
                               response.to.pageSize))

\* C26: in every analyze and comments response, hasMoreComments (hasMore)
\* is true exactly when the query has actual comments beyond the returned
\* page, for every total number of actual comments, the exact multiples of
\* the page size included.
C26_HasMoreIffCommentsBeyondPage ==
    [][response' # response => HasMoreIsExact']_vars

\* The case of C26: a page of comments was answered for a query whose
\* number of actual comments is a multiple of the page size.
C26_LastFullPageAnswered ==
    /\ response.kind = "comments"
    /\ response.to.queryId \in 1..Len(storedComments)
    /\ response.comments # <<>>
    /\ Len(ActualComments(storedComments[response.to.queryId]))
          = response.to.page * response.to.pageSize

\* The stored set of a query holds generated sample comments of YouTube.
DerivedFromSample(stored, searchQueryId) ==
    \E k \in 1..Len(stored[searchQueryId]) :
        /\ stored[searchQueryId][k].platform = "YouTube"
        /\ stored[searchQueryId][k].origin = "sample"

\* C27: for any sequence of analyze and saveApiKey operations, once a
\* credential has been saved for a platform, no later analyze response for a
\* query on that platform contains analytics or comments derived from
\* generated sample data, the responses served from the cache for a
\* fingerprint first searched before the credential was saved included.
C27_NoSampleDataAfterCredential ==
    [][("youtube" \in apiKeys /\ response' # response
          /\ response'.kind = "analytics") =>
         /\ ~DerivedFromSample(storedComments', response'.analytics.searchQueryId)
         /\ \A k \in 1..Len(response'.comments) :
               ~(response'.comments[k].platform = "YouTube"
                   /\ response'.comments[k].origin = "sample")]_vars

\* The case of C27: with the credential saved, a request was answered from
\* the cache for a query that was collected before.
C27_CacheServedAfterCredential ==
    /\ "youtube" \in apiKeys
    /\ response.kind = "analytics"
    /\ response.from = "cache"
    /\ response.comments # <<>>
    /\ DerivedFromSample(storedComments, response.analytics.searchQueryId)

\* C28: a result served from the cache to a regular keyword search
\* (isVideoTitleSearch = false) was computed by a regular keyword search
\* with the same (keyword, timeperiod, platform); the analytics a
\* video-title search computed, stored under the same fingerprint, are
\* never returned to a regular search.
C28_CacheKeepsTitleSearchesApart ==
    [][(response' # response /\ response'.kind = "analytics"
          /\ response'.from = "cache" /\ ~response'.to.isVideoTitleSearch) =>
         LET query == searchQueries[response'.analytics.searchQueryId]
         IN  /\ SameFingerprint(query, response'.to)
             /\ ~query.isVideoTitleSearch]_vars

\* The case of C28: a regular search was answered from the cache while a
\* title search and a regular search of its fingerprint are both stored.
C28_RegularSearchServedFromCache ==
    /\ response.kind = "analytics"
    /\ response.from = "cache"
    /\ ~response.to.isVideoTitleSearch
    /\ \E a, b \in 1..Len(searchQueries) :
          /\ SameFingerprint(searchQueries[a], response.to)
          /\ SameFingerprint(searchQueries[b], response.to)
          /\ searchQueries[a].isVideoTitleSearch
          /\ ~searchQueries[b].isVideoTitleSearch

\* The keyword search of YouTube is at work on its videos.
KeywordVideoStates == {"yt_video", "yt_details", "yt_few", "yt_page", "yt_note"}

\* C29: in keyword-based YouTube collection with a credential configured,
\* for every video of the search whose video-details request succeeds the
\* collector goes on to request that video's comment pages, and the comments
\* retrieved stay in its result; a successful details response never causes
\* the video to be skipped.
C29_DetailsSuccessRequestsComments ==
    [][(apiKey /\ ~request.isVideoTitleSearch) =>
         /\ (cpc = "yt_details" /\ reported'[videoId] # reported[videoId]) =>
                cpc' \in {"yt_few", "yt_page"}
         /\ (cpc \in KeywordVideoStates /\ cpc' \in KeywordVideoStates) =>
                /\ Len(comments') >= Len(comments)
                /\ SubSeq(comments', 1, Len(comments)) = comments
         /\ (cpc = "yt_video" /\ cpc' = "dispatch") =>
                outcomes'[Len(outcomes')].list = comments]_vars

\* The case of C29: the details of a video of a keyword search were read and
\* its comment pages are being requested.
C29_PagesRequestedAfterDetails ==
    /\ apiKey
    /\ ~request.isVideoTitleSearch
    /\ cpc \in {"yt_few", "yt_page"}
    /\ videoId > 0
    /\ reported[videoId] > 0

\* C30: comment retrieval for one video terminates for every pattern of
\* successful and failed page requests over a finite chain of continuation
\* tokens.  Every step that stays in a pass moves forward along the chain, or
\* stays on the page and uses up one of the 3 retries; the few-comments loop
\* moves along the chain; a finished pass is followed by the next comment
\* type or by the note, after which collection goes to the next video.
C30_RetrievalTerminates ==
    [][/\ (cpc = "yt_page" /\ cpc' = "yt_page") =>
              /\ commentType' = commentType
              /\ retryCount' <= maxRetries
              /\ \/ nextPageToken' > nextPageToken
                 \/ /\ nextPageToken' = nextPageToken
                    /\ retryCount' = retryCount + 1
       /\ (cpc = "yt_few" /\ cpc' = "yt_few") =>
              localNextPageToken' > localNextPageToken
       /\ (cpc = "yt_pass_end" /\ cpc' # "yt_pass_end") =>
              \/ cpc' = "yt_page" /\ commentType' > commentType
              \/ cpc' = "yt_note"
       /\ (cpc = "yt_note" /\ cpc' # "yt_note") =>
              cpc' \in {"yt_video", "dispatch", "done"}]_vars

\* The case of C30: a page beyond the first kept failing, its 3 retries were
\* used up and the pass was left with the continuation token in hand.
C30_PassEndedAfterRetries ==
    /\ cpc = "yt_pass_end"
    /\ retryCount = maxRetries
    /\ nextPageToken # 0
    /\ failedAttempts > maxRetries
====
